---------------------------- MODULE Spec2Model ----------------------------
(***************************************************************************)
(* Model of the wireframe analyzer (src/src/analyzer.ts).                  *)
(*                                                                         *)
(* The page is a snapshot of the element tree: elements 1..n numbered in   *)
(* document order (preorder), parent[i] the index of the parent (0 is      *)
(* <body>), el[i] the element's attributes, computed style and client      *)
(* rectangle.  analyzeDom is one action; the module-level id counter       *)
(* nodeIdCounter survives between calls.                                   *)
(*                                                                         *)
(* Arithmetic is exact: the source's floating-point products               *)
(* (area * 0.85, viewportArea * 0.1, the 30% tolerance) are compared as    *)
(* rationals by cross-multiplication.                                      *)
(***************************************************************************)
EXTENDS Integers, Sequences, FiniteSets, TLC

VARIABLES
    dom,            \* the element tree and the window (input snapshot)
    config,         \* the Partial<AnalyzerConfig> passed to analyzeDom
    nodeIdCounter,  \* analyzer.ts:194, module-level
    model,          \* nodes of the WireframeModel last returned
    prevModel,      \* nodes of the model returned by the call before it
    runs,           \* number of analyzeDom calls made so far
    domChanges,     \* number of DOM mutations since the last call
    unchanged,      \* the last call analysed the tree of the call before it
    stack,          \* the buildNodeTree activations of a call in progress
    visits,         \* per element, the buildNodeTree calls made on it in this call
    verdict,        \* the last direct call of a classifier function and its result
    pipeline,       \* the wireframe_page tool call in progress (mcp-server)
    devServer,      \* the dev server process (scripts/dev-server.js)
    state,          \* the state object of main.ts
    page            \* the document as main.ts sees it: overlay elements, keydown listeners

vars == <<dom, config, nodeIdCounter, model, prevModel, runs, domChanges, unchanged,
          stack, visits, verdict, pipeline, devServer, state, page>>

-----------------------------------------------------------------------------
(* Strings.  TLC treats a string as a sequence of one-character strings.   *)

Range(f) == {f[x] : x \in DOMAIN f}

Max(a, b) == IF a >= b THEN a ELSE b

Min(a, b) == IF a <= b THEN a ELSE b

Abs(a) == IF a < 0 THEN 0 - a ELSE a

UpperChars == <<"A","B","C","D","E","F","G","H","I","J","K","L","M",
                "N","O","P","Q","R","S","T","U","V","W","X","Y","Z">>

LowerChars == <<"a","b","c","d","e","f","g","h","i","j","k","l","m",
                "n","o","p","q","r","s","t","u","v","w","x","y","z">>

DigitChars == {"0","1","2","3","4","5","6","7","8","9"}

\* \s of a JavaScript regular expression (the ASCII part)
WhitespaceChars == {" ", "\t", "\n", "\r", "\f"}

CharAt(s, i) == SubSeq(s, i, i)

UpperSet == Range(UpperChars)

LowerSet == Range(LowerChars)

ToLowerMap ==
    [c \in UpperSet |-> LowerChars[CHOOSE k \in DOMAIN UpperChars : UpperChars[k] = c]]

ToUpperMap ==
    [c \in LowerSet |-> UpperChars[CHOOSE k \in DOMAIN LowerChars : LowerChars[k] = c]]

IsUpper(c) == c \in UpperSet

IsLower(c) == c \in LowerSet

\* \w of a JavaScript regular expression
IsWordChar(c) == IsUpper(c) \/ IsLower(c) \/ c \in DigitChars \/ c = "_"

LowerChar(c) == IF IsUpper(c) THEN ToLowerMap[c] ELSE c

UpperChar(c) == IF IsLower(c) THEN ToUpperMap[c] ELSE c

RECURSIVE toLowerCase(_)
toLowerCase(s) ==
    IF Len(s) = 0 THEN ""
    ELSE LowerChar(CharAt(s, 1)) \o toLowerCase(SubSeq(s, 2, Len(s)))

\* String.prototype.slice(a, b) with 0 <= a <= b (0-based, end exclusive)
slice(s, a, b) == SubSeq(s, a + 1, Min(b, Len(s)))

\* String.prototype.trim
RECURSIVE trimStart(_)
trimStart(s) ==
    IF Len(s) > 0 /\ CharAt(s, 1) \in WhitespaceChars
    THEN trimStart(SubSeq(s, 2, Len(s)))
    ELSE s

RECURSIVE trimEnd(_)
trimEnd(s) ==
    IF Len(s) > 0 /\ CharAt(s, Len(s)) \in WhitespaceChars
    THEN trimEnd(SubSeq(s, 1, Len(s) - 1))
    ELSE s

trim(s) == trimEnd(trimStart(s))

\* charAt(0).toUpperCase() + slice(1)
capitalize(s) ==
    IF Len(s) = 0 THEN "" ELSE UpperChar(CharAt(s, 1)) \o SubSeq(s, 2, Len(s))

\* sub occurs in s starting at position i (1-based)
MatchAt(s, i, sub) ==
    /\ i >= 1
    /\ i + Len(sub) - 1 <= Len(s)
    /\ SubSeq(s, i, i + Len(sub) - 1) = sub

\* an unanchored literal regular expression /sub/
Contains(s, sub) == \E i \in 1..(Len(s) - Len(sub) + 1) : MatchAt(s, i, sub)

StartsWith(s, sub) == MatchAt(s, 1, sub)

EndsWith(s, sub) == MatchAt(s, Len(s) - Len(sub) + 1, sub)

\* /a[seps]?(b1|b2|...)/ : a, then at most one character of seps, then one of bs
ContainsJoined(s, a, seps, bs) ==
    \E i \in 1..Len(s) :
        /\ MatchAt(s, i, a)
        /\ \E b \in bs :
              \/ MatchAt(s, i + Len(a), b)
              \/ /\ i + Len(a) <= Len(s)
                 /\ CharAt(s, i + Len(a)) \in seps
                 /\ MatchAt(s, i + Len(a) + 1, b)

\* /\b(w)\b/ : w delimited by word boundaries
ContainsWord(s, w) ==
    \E i \in 1..Len(s) :
        /\ MatchAt(s, i, w)
        /\ (i = 1 \/ ~IsWordChar(CharAt(s, i - 1)))
        /\ (i + Len(w) > Len(s) \/ ~IsWordChar(CharAt(s, i + Len(w))))

\* /\b(w)/ followed by a non-word character that a \b can follow: for a w that
\* ends in a non-word character ("fa-"), \b after it needs a word character next
ContainsWordBeforeWordChar(s, w) ==
    \E i \in 1..Len(s) :
        /\ MatchAt(s, i, w)
        /\ (i = 1 \/ ~IsWordChar(CharAt(s, i - 1)))
        /\ i + Len(w) <= Len(s)
        /\ IsWordChar(CharAt(s, i + Len(w)))

\* s.split(/\s+/).filter(c => c.length > 0)
RECURSIVE splitWhitespace(_, _)
splitWhitespace(s, cur) ==
    IF Len(s) = 0
    THEN IF Len(cur) > 0 THEN <<cur>> ELSE <<>>
    ELSE IF CharAt(s, 1) \in WhitespaceChars
         THEN (IF Len(cur) > 0 THEN <<cur>> ELSE <<>>)
                  \o splitWhitespace(SubSeq(s, 2, Len(s)), "")
         ELSE splitWhitespace(SubSeq(s, 2, Len(s)), cur \o CharAt(s, 1))

-----------------------------------------------------------------------------
(* Constant tables of analyzer.ts                                          *)

LANDMARK_TAGS == {"header", "nav", "main", "section", "article", "aside", "footer"}

LANDMARK_ROLES == {"banner", "navigation", "main", "contentinfo",
                   "complementary", "region", "search", "form"}

SKIP_TAGS ==
    {"h1", "h2", "h3", "h4", "h5", "h6", "p", "blockquote", "pre",
     "span", "a", "em", "strong", "b", "i", "label", "small", "sub", "sup",
     "abbr", "code", "kbd", "mark", "q", "s", "u", "var", "time", "br", "wbr",
     "script", "style", "link", "meta", "noscript", "template",
     "img", "svg", "picture", "video", "audio", "canvas", "iframe",
     "input", "textarea", "select", "button", "form",
     "ul", "ol", "li", "dl", "dt", "dd",
     "table", "thead", "tbody", "tr", "td", "th"}

Seps == {"-", "_"} \cup WhitespaceChars

\* the labels of STRUCTURAL_CLASS_PATTERNS, in table order
STRUCTURAL_CLASS_LABELS ==
    <<"Hero", "Hero", "Cards", "Card", "Features", "Feature", "Services",
      "Service", "Testimonials", "Pricing", "CTA", "Banner", "Sidebar",
      "Contact", "About", "Team", "FAQ", "Gallery", "Portfolio", "Blog",
      "News", "Stats", "Benefits", "Partners", "Newsletter", "Social", "Map",
      "Location", "Hours">>

\* pattern k of STRUCTURAL_CLASS_PATTERNS tested on s, which is lower-cased
\* (all the patterns carry the i flag)
StructuralPatternTest(k, s) ==
    CASE k = 1  -> \/ ContainsJoined(s, "hero", Seps, {"section", "banner"})
                   \/ EndsWith(s, "hero")
      [] k = 2  -> Contains(s, "hero")
      [] k = 3  -> ContainsJoined(s, "card", Seps, {"grid", "list", "container"})
      [] k = 4  -> Contains(s, "card")
      [] k = 5  -> ContainsJoined(s, "feature", Seps, {"grid", "list", "section"})
      [] k = 6  -> Contains(s, "feature")
      [] k = 7  -> ContainsJoined(s, "service", Seps, {"grid", "list", "section"})
      [] k = 8  -> Contains(s, "service")
      [] k = 9  -> Contains(s, "testimonial")
      [] k = 10 -> Contains(s, "pricing")
      [] k = 11 -> \/ Contains(s, "cta")
                   \/ \E a \in {"", "-", "_"}, b \in {"", "-", "_"} :
                         Contains(s, "call" \o a \o "to" \o b \o "action")
      [] k = 12 -> Contains(s, "banner")
      [] k = 13 -> Contains(s, "sidebar")
      [] k = 14 -> ContainsJoined(s, "contact", Seps, {"form", "section"})
      [] k = 15 -> ContainsJoined(s, "about", Seps, {"section", "us"})
      [] k = 16 -> Contains(s, "team")
      [] k = 17 -> Contains(s, "faq")
      [] k = 18 -> Contains(s, "gallery")
      [] k = 19 -> Contains(s, "portfolio")
      [] k = 20 -> ContainsJoined(s, "blog", Seps, {"post", "section"})
      [] k = 21 -> Contains(s, "news")
      [] k = 22 -> Contains(s, "stats") \/ Contains(s, "statistics")
      [] k = 23 -> Contains(s, "benefits")
      [] k = 24 -> Contains(s, "partners") \/ Contains(s, "clients")
                      \/ Contains(s, "logos")
      [] k = 25 -> Contains(s, "newsletter")
      [] k = 26 -> Contains(s, "social")
      [] k = 27 -> ContainsJoined(s, "map", Seps, {"section", "container"})
      [] k = 28 -> Contains(s, "location")
      [] k = 29 -> Contains(s, "hours") \/ Contains(s, "schedule")
                      \/ Contains(s, "opening")
      [] OTHER  -> FALSE

\* the label of the first table entry from k on whose pattern matches s,
\* "" (null) when none does
RECURSIVE FirstMatchFrom(_, _)
FirstMatchFrom(k, s) ==
    IF k > Len(STRUCTURAL_CLASS_LABELS) THEN ""
    ELSE IF StructuralPatternTest(k, s) THEN STRUCTURAL_CLASS_LABELS[k]
    ELSE FirstMatchFrom(k + 1, s)

\* for (const [pattern, label] of STRUCTURAL_CLASS_PATTERNS) if (pattern.test(str)) ...
FirstStructuralLabel(str) == FirstMatchFrom(1, toLowerCase(str))

AllDigits(s) == \A i \in 1..Len(s) : CharAt(s, i) \in DigitChars

\* after prefix p: an optional - or _, then a digit (/^p[-_]?\d/)
PrefixSepDigit(s, p) ==
    /\ StartsWith(s, p)
    /\ \/ /\ Len(s) > Len(p)
          /\ CharAt(s, Len(p) + 1) \in DigitChars
       \/ /\ Len(s) > Len(p) + 1
          /\ CharAt(s, Len(p) + 1) \in {"-", "_"}
          /\ CharAt(s, Len(p) + 2) \in DigitChars

\* some pattern of GENERIC_CONTAINER_PATTERNS matches the class token cls
GenericPatternTest(cls) ==
    LET s == toLowerCase(cls) IN
    \/ s \in {"container", "wrapper", "inner", "outer", "content", "box",
              "row", "grid", "flex", "layout"}
    \/ \E p \in {"col", "column"} :
          /\ StartsWith(s, p)
          /\ LET rest == SubSeq(s, Len(p) + 1, Len(s)) IN
                \/ AllDigits(rest)
                \/ /\ Len(rest) > 0
                   /\ CharAt(rest, 1) \in {"-", "_"}
                   /\ AllDigits(SubSeq(rest, 2, Len(rest)))
    \/ \E p \in {"maxw", "max-w", "max_w", "mxauto", "mx-auto", "mx_auto"} :
          StartsWith(s, p)
    \/ \E p \in {"px", "py", "p", "m"} : PrefixSepDigit(s, p)

\* DEFAULT_CONFIG
DEFAULT_MIN_AREA == 10000

DEFAULT_MAX_DEPTH == 3

\* 0.05, in percent
DEFAULT_VIEWPORT_AREA_THRESHOLD == 5

DEFAULT_CONFIG ==
    [minArea |-> DEFAULT_MIN_AREA, maxDepth |-> DEFAULT_MAX_DEPTH,
     viewportAreaThreshold |-> DEFAULT_VIEWPORT_AREA_THRESHOLD]

GRID_ITEM_MIN_AREA == 2500

CONTENT_MIN_SIZES ==
    [image  |-> [width |-> 30, height |-> 30],
     button |-> [width |-> 50, height |-> 20],
     text   |-> [width |-> 50, height |-> 10],
     icon   |-> [width |-> 12, height |-> 12]]

CONTENT_MAX_COUNTS == [image |-> 5, button |-> 3, text |-> 1, icon |-> 6]

-----------------------------------------------------------------------------
(* The element tree (input boundary).                                      *)
(*   d.n          number of elements, 1..n in document order               *)
(*   d.parent[i]  parent of element i, 0 for <body>                        *)
(*   d.el[i]      [tagName, isSVG, id, className, role, type, display,     *)
(*                 flexDirection, visibility, opacity, rect, ownText]      *)
(*   d.window     [innerWidth, innerHeight, scrollX, scrollY]              *)

RECURSIVE SortedSeq(_)
SortedSeq(S) ==
    IF S = {} THEN <<>>
    ELSE LET m == CHOOSE x \in S : \A y \in S : x <= y
         IN  <<m>> \o SortedSeq(S \ {m})

\* el.children of element i (i = 0: body.children), document order
Children(d, i) == SortedSeq({j \in 1..d.n : d.parent[j] = i})

RECURSIVE IsAncestor(_, _, _)
IsAncestor(d, a, j) ==
    /\ j # 0
    /\ \/ d.parent[j] = a
       \/ IsAncestor(d, a, d.parent[j])

\* the elements el.querySelectorAll visits: the descendants of i, document order
Descendants(d, i) == SortedSeq({j \in 1..d.n : IsAncestor(d, i, j)})

\* Node.textContent: the text of the element and of its descendants
RECURSIVE textContent(_, _)
RECURSIVE ConcatText(_, _)
ConcatText(d, kids) ==
    IF kids = <<>> THEN ""
    ELSE textContent(d, Head(kids)) \o ConcatText(d, Tail(kids))

textContent(d, i) == d.el[i].ownText \o ConcatText(d, Children(d, i))

tagNameOf(e) == toLowerCase(e.tagName)

isHTMLElement(e) == ~e.isSVG

isElementVisible(e) ==
    IF e.display = "none" THEN FALSE
    ELSE IF e.visibility = "hidden" THEN FALSE
    ELSE IF e.opacity = 0 THEN FALSE
    ELSE IF e.rect.width = 0 \/ e.rect.height = 0 THEN FALSE
    ELSE TRUE

getAbsoluteBoundingBox(e, w) ==
    [x      |-> e.rect.left + w.scrollX,
     y      |-> e.rect.top + w.scrollY,
     width  |-> e.rect.width,
     height |-> e.rect.height]

isLandmark(e) ==
    IF tagNameOf(e) \in LANDMARK_TAGS THEN TRUE
    ELSE IF e.role # "" /\ e.role \in LANDMARK_ROLES THEN TRUE
    ELSE FALSE

\* "" stands for null
getClassLabel(e) ==
    IF e.className = "" THEN "" ELSE FirstStructuralLabel(e.className)

\* mutant: an element without a class attribute does not count as generic
hasOnlyGenericClassesNonEmpty(e) ==
    IF e.className = "" THEN FALSE
    ELSE LET classes == splitWhitespace(e.className, "")
         IN  IF Len(classes) = 0 THEN TRUE
             ELSE \A k \in DOMAIN classes : GenericPatternTest(classes[k])

hasOnlyGenericClasses(e) ==
    IF e.className = "" THEN TRUE
    ELSE LET classes == splitWhitespace(e.className, "")
         IN  IF Len(classes) = 0 THEN TRUE
             ELSE \A k \in DOMAIN classes : GenericPatternTest(classes[k])

isGridOrFlexContainer(e) ==
    IF e.display \in {"grid", "inline-grid"} THEN TRUE
    ELSE IF e.display \in {"flex", "inline-flex"}
         THEN e.flexDirection \in {"row", "row-reverse"}
         ELSE FALSE

getVisibleChildren(d, i) ==
    SelectSeq(Children(d, i),
              LAMBDA j : /\ isHTMLElement(d.el[j])
                         /\ tagNameOf(d.el[j]) \notin SKIP_TAGS
                         /\ isElementVisible(d.el[j]))

RECURSIVE SumOver(_, _, _)
SumOver(d, js, field) ==
    IF js = <<>> THEN 0
    ELSE d.el[Head(js)].rect[field] + SumOver(d, Tail(js), field)

\* mutant: significantSizes.some(...) in place of significantSizes.every(...)
areChildrenSimilarlySizedSome(d, children) ==
    IF Len(children) < 2 THEN FALSE
    ELSE LET significantSizes ==
                 SelectSeq(children,
                           LAMBDA j : d.el[j].rect.width * d.el[j].rect.height > 1000)
             len == Len(significantSizes)
             sumWidth  == SumOver(d, significantSizes, "width")
             sumHeight == SumOver(d, significantSizes, "height")
         IN  IF len < 2 THEN FALSE
             ELSE \E k \in DOMAIN significantSizes :
                     LET r == d.el[significantSizes[k]].rect IN
                     /\ 10 * Abs(r.width * len - sumWidth) <= 3 * sumWidth
                     /\ 10 * Abs(r.height * len - sumHeight) <= 3 * sumHeight

\* mutant: a child of exactly 1000 px2 kept for the similarity test
areChildrenSimilarlySizedFrom1000(d, children) ==
    IF Len(children) < 2 THEN FALSE
    ELSE LET significantSizes ==
                 SelectSeq(children,
                           LAMBDA j : d.el[j].rect.width * d.el[j].rect.height >= 1000)
             len == Len(significantSizes)
             sumWidth  == SumOver(d, significantSizes, "width")
             sumHeight == SumOver(d, significantSizes, "height")
         IN  IF len < 2 THEN FALSE
             ELSE \A k \in DOMAIN significantSizes :
                     LET r == d.el[significantSizes[k]].rect IN
                     /\ 10 * Abs(r.width * len - sumWidth) <= 3 * sumWidth
                     /\ 10 * Abs(r.height * len - sumHeight) <= 3 * sumHeight

\* tolerance is the default 0.3; |w - avg| / avg <= 3/10 with avg = sum / len
areChildrenSimilarlySized(d, children) ==
    IF Len(children) < 2 THEN FALSE
    ELSE LET significantSizes ==
                 SelectSeq(children,
                           LAMBDA j : d.el[j].rect.width * d.el[j].rect.height > 1000)
             len == Len(significantSizes)
             sumWidth  == SumOver(d, significantSizes, "width")
             sumHeight == SumOver(d, significantSizes, "height")
         IN  IF len < 2 THEN FALSE
             ELSE \A k \in DOMAIN significantSizes :
                     LET r == d.el[significantSizes[k]].rect IN
                     /\ 10 * Abs(r.width * len - sumWidth) <= 3 * sumWidth
                     /\ 10 * Abs(r.height * len - sumHeight) <= 3 * sumHeight

\* the children within the default tolerance of the mean width and height of
\* the children above 1000 px2
similarlySizedChildren(d, children) ==
    LET significantSizes ==
            SelectSeq(children,
                      LAMBDA j : d.el[j].rect.width * d.el[j].rect.height > 1000)
        len == Len(significantSizes)
        sumWidth  == SumOver(d, significantSizes, "width")
        sumHeight == SumOver(d, significantSizes, "height")
    IN  SelectSeq(significantSizes,
                  LAMBDA j : /\ 10 * Abs(d.el[j].rect.width * len - sumWidth)
                                  <= 3 * sumWidth
                             /\ 10 * Abs(d.el[j].rect.height * len - sumHeight)
                                  <= 3 * sumHeight)

\* mutant: the children outside the tolerance are dropped and the similar
\* ones returned
detectGridItemsSimilarSubset(d, i) ==
    IF ~isGridOrFlexContainer(d.el[i]) THEN <<>>
    ELSE LET children == getVisibleChildren(d, i) IN
         IF Len(children) < 2 THEN <<>>
         ELSE LET nonLandmarkChildren ==
                      SelectSeq(children, LAMBDA j : ~isLandmark(d.el[j])) IN
              IF Len(nonLandmarkChildren) < 2 THEN <<>>
              ELSE LET validChildren ==
                           SelectSeq(similarlySizedChildren(d, nonLandmarkChildren),
                                     LAMBDA j : d.el[j].rect.width * d.el[j].rect.height
                                                    >= GRID_ITEM_MIN_AREA)
                   IN  IF Len(validChildren) >= 2 THEN validChildren ELSE <<>>

\* <<>> stands for null (a non-null result has at least 2 elements)
detectGridItems(d, i) ==
    IF ~isGridOrFlexContainer(d.el[i]) THEN <<>>
    ELSE LET children == getVisibleChildren(d, i) IN
         IF Len(children) < 2 THEN <<>>
         ELSE LET nonLandmarkChildren ==
                      SelectSeq(children, LAMBDA j : ~isLandmark(d.el[j])) IN
              IF Len(nonLandmarkChildren) < 2 THEN <<>>
              ELSE IF ~areChildrenSimilarlySized(d, nonLandmarkChildren) THEN <<>>
              ELSE LET validChildren ==
                           SelectSeq(nonLandmarkChildren,
                                     LAMBDA j : d.el[j].rect.width * d.el[j].rect.height
                                                    >= GRID_ITEM_MIN_AREA)
                   IN  IF Len(validChildren) >= 2 THEN validChildren ELSE <<>>

\* mutant: the landmark test made before the minimum-size test
isSignificantLandmarkFirst(e, viewportArea, cfg) ==
    LET tagName == tagNameOf(e)
        area    == e.rect.width * e.rect.height
    IN  IF tagName \in SKIP_TAGS THEN FALSE
        ELSE IF isLandmark(e) THEN TRUE
        ELSE IF area < cfg.minArea THEN FALSE
        ELSE IF getClassLabel(e) # "" THEN TRUE
        ELSE IF tagName = "div" /\ hasOnlyGenericClasses(e) THEN FALSE
        ELSE IF tagName = "div" THEN area * 10 > viewportArea
        ELSE FALSE

\* mutant: the div rule reads config.viewportAreaThreshold (in percent)
isSignificantConfigured(e, viewportArea, cfg) ==
    LET tagName == tagNameOf(e)
        area    == e.rect.width * e.rect.height
    IN  IF tagName \in SKIP_TAGS THEN FALSE
        ELSE IF area < cfg.minArea THEN FALSE
        ELSE IF isLandmark(e) THEN TRUE
        ELSE IF getClassLabel(e) # "" THEN TRUE
        ELSE IF tagName = "div" /\ hasOnlyGenericClasses(e) THEN FALSE
        ELSE IF tagName = "div"
             THEN area * 100 > viewportArea * cfg.viewportAreaThreshold
        ELSE FALSE

isSignificant(e, viewportArea, cfg) ==
    LET tagName == tagNameOf(e)
        area    == e.rect.width * e.rect.height
    IN  IF tagName \in SKIP_TAGS THEN FALSE
        ELSE IF area < cfg.minArea THEN FALSE
        ELSE IF isLandmark(e) THEN TRUE
        ELSE IF getClassLabel(e) # "" THEN TRUE
        ELSE IF tagName = "div" /\ hasOnlyGenericClasses(e) THEN FALSE
        ELSE IF tagName = "div" THEN area * 10 > viewportArea
        ELSE FALSE

\* el.querySelector("h1, h2, h3"): the first such descendant; "" stands for null
inferLabelFromContent(d, i) ==
    LET hs == SelectSeq(Descendants(d, i),
                        LAMBDA j : tagNameOf(d.el[j]) \in {"h1", "h2", "h3"})
    IN  IF hs = <<>> THEN ""
        ELSE LET text == trim(textContent(d, hs[1])) IN
             IF Len(text) > 0 /\ Len(text) < 50
             THEN LET label == slice(text, 0, 25) IN
                  IF Len(label) < Len(text) THEN label \o "..." ELSE label
             ELSE ""

inferGridItemLabel(d, i) ==
    LET classLabel == getClassLabel(d.el[i]) IN
    IF classLabel # "" THEN classLabel
    ELSE LET contentLabel == inferLabelFromContent(d, i) IN
         IF contentLabel # "" THEN contentLabel ELSE "Card"

\* id.replace(/[-_]/g, " ").replace(/([a-z])([A-Z])/g, "$1 $2").toLowerCase()
RECURSIVE cleanIdFrom(_, _)
cleanIdFrom(id, k) ==
    IF k > Len(id) THEN ""
    ELSE LET c == IF CharAt(id, k) \in {"-", "_"} THEN " " ELSE CharAt(id, k)
             camel == /\ k < Len(id)
                      /\ IsLower(c)
                      /\ IsUpper(CharAt(id, k + 1))
         IN  LowerChar(c) \o (IF camel THEN " " ELSE "") \o cleanIdFrom(id, k + 1)

roleLabels ==
    [banner |-> "Header", navigation |-> "Navigation", main |-> "Main Content",
     contentinfo |-> "Footer", complementary |-> "Sidebar", search |-> "Search",
     region |-> "Region"]

tagLabels ==
    [header |-> "Header", nav |-> "Navigation", main |-> "Main Content",
     section |-> "Section", article |-> "Article", aside |-> "Sidebar",
     footer |-> "Footer"]

\* mutant: the ARIA role consulted before the id
generateLabelRoleFirst(d, i) ==
    LET e == d.el[i]
        tagName == tagNameOf(e)
        classLabel == getClassLabel(e)
        id == e.id
        idLabel == FirstStructuralLabel(id)
        contentLabel == inferLabelFromContent(d, i)
    IN  IF classLabel # "" THEN classLabel
        ELSE IF e.role # "" /\ e.role \in DOMAIN roleLabels THEN roleLabels[e.role]
        ELSE IF id # "" /\ Len(id) > 2 /\ Len(id) < 30
             THEN IF idLabel # "" THEN idLabel
                  ELSE capitalize(cleanIdFrom(id, 1))
        ELSE IF tagName \in {"section", "article", "div"} /\ contentLabel # ""
             THEN contentLabel
        ELSE IF tagName \in DOMAIN tagLabels THEN tagLabels[tagName]
        ELSE IF tagName = "div" THEN "Block"
        ELSE capitalize(tagName)

generateLabel(d, i) ==
    LET e == d.el[i]
        tagName == tagNameOf(e)
        classLabel == getClassLabel(e)
        id == e.id
        idLabel == FirstStructuralLabel(id)
        contentLabel == inferLabelFromContent(d, i)
    IN  IF classLabel # "" THEN classLabel
        ELSE IF id # "" /\ Len(id) > 2 /\ Len(id) < 30
             THEN IF idLabel # "" THEN idLabel
                  ELSE capitalize(cleanIdFrom(id, 1))
        ELSE IF e.role # "" /\ e.role \in DOMAIN roleLabels THEN roleLabels[e.role]
        ELSE IF tagName \in {"section", "article", "div"} /\ contentLabel # ""
             THEN contentLabel
        ELSE IF tagName \in DOMAIN tagLabels THEN tagLabels[tagName]
        ELSE IF tagName = "div" THEN "Block"
        ELSE capitalize(tagName)

\* mutant: the label tested before the tag and the role
getSemanticTypeLabelFirst(e, label) ==
    LET tagName == tagNameOf(e)
        role == e.role
        lowerLabel == toLowerCase(label)
    IN  IF Contains(lowerLabel, "hero") \/ Contains(lowerLabel, "banner")
             THEN "hero"
        ELSE IF \E w \in {"card", "feature", "service", "testimonial", "team", "benefit"} :
                   Contains(lowerLabel, w)
             THEN "card"
        ELSE IF \/ Contains(lowerLabel, "cta")
                \/ Contains(lowerLabel, "contact")
                \/ Contains(lowerLabel, "newsletter")
                \/ \E i1 \in 1..Len(lowerLabel) :
                      /\ MatchAt(lowerLabel, i1, "call")
                      /\ \E g1 \in {0, 1}, g2 \in {0, 1} :
                            /\ i1 + 4 + g1 + 2 + g2 + 6 - 1 <= Len(lowerLabel)
                            /\ (g1 = 1 => CharAt(lowerLabel, i1 + 4) \notin {"\n", "\r"})
                            /\ MatchAt(lowerLabel, i1 + 4 + g1, "to")
                            /\ (g2 = 1 => CharAt(lowerLabel, i1 + 6 + g1) \notin {"\n", "\r"})
                            /\ MatchAt(lowerLabel, i1 + 6 + g1 + g2, "action")
             THEN "cta"
        ELSE IF Contains(lowerLabel, "nav") \/ Contains(lowerLabel, "menu")
             THEN "navigation"
        ELSE IF tagName = "header" \/ role = "banner" THEN "header"
        ELSE IF tagName = "nav" \/ role = "navigation" THEN "navigation"
        ELSE IF tagName = "footer" \/ role = "contentinfo" THEN "footer"
        ELSE "content"

getSemanticType(e, label) ==
    LET tagName == tagNameOf(e)
        role == e.role
        lowerLabel == toLowerCase(label)
    IN  IF tagName = "header" \/ role = "banner" THEN "header"
        ELSE IF tagName = "nav" \/ role = "navigation" THEN "navigation"
        ELSE IF tagName = "footer" \/ role = "contentinfo" THEN "footer"
        ELSE IF Contains(lowerLabel, "hero") \/ Contains(lowerLabel, "banner")
             THEN "hero"
        ELSE IF \E w \in {"card", "feature", "service", "testimonial", "team", "benefit"} :
                   Contains(lowerLabel, w)
             THEN "card"
        ELSE IF \/ Contains(lowerLabel, "cta")
                \/ Contains(lowerLabel, "contact")
                \/ Contains(lowerLabel, "newsletter")
                \/ \E i1 \in 1..Len(lowerLabel) :
                      /\ MatchAt(lowerLabel, i1, "call")
                      /\ \E g1 \in {0, 1}, g2 \in {0, 1} :
                            /\ i1 + 4 + g1 + 2 + g2 + 6 - 1 <= Len(lowerLabel)
                            /\ (g1 = 1 => CharAt(lowerLabel, i1 + 4) \notin {"\n", "\r"})
                            /\ MatchAt(lowerLabel, i1 + 4 + g1, "to")
                            /\ (g2 = 1 => CharAt(lowerLabel, i1 + 6 + g1) \notin {"\n", "\r"})
                            /\ MatchAt(lowerLabel, i1 + 6 + g1 + g2, "action")
             THEN "cta"
        ELSE IF Contains(lowerLabel, "nav") \/ Contains(lowerLabel, "menu")
             THEN "navigation"
        ELSE "content"

-----------------------------------------------------------------------------
(* Content hints                                                           *)

\* mutant: only the tag decides, an anchor is never a button
isButtonElementTagOnly(e) ==
    LET tagName == tagNameOf(e) IN
    IF tagName = "button" THEN TRUE
    ELSE IF tagName = "input" THEN e.type \in {"submit", "button"}
    ELSE FALSE

isButtonElement(e) ==
    LET tagName == tagNameOf(e) IN
    IF tagName = "button" THEN TRUE
    ELSE IF tagName = "input" THEN e.type \in {"submit", "button"}
    ELSE IF tagName = "a"
         THEN IF e.role = "button" THEN TRUE
              ELSE \E w \in {"btn", "button", "cta"} :
                      ContainsWord(toLowerCase(e.className), w)
    ELSE FALSE

isIconElement(e) ==
    LET tagName == tagNameOf(e) IN
    IF tagName = "svg" THEN e.rect.width * e.rect.height <= 400
    ELSE IF tagName \in {"i", "span"}
         THEN LET c == toLowerCase(e.className) IN
              \/ ContainsWord(c, "icon")
              \/ ContainsWord(c, "material-icons")
              \/ ContainsWordBeforeWordChar(c, "fa-")
              \/ ContainsWordBeforeWordChar(c, "bi-")
    ELSE FALSE

getElementBoundingBox(e, w) ==
    [x      |-> e.rect.left + w.scrollX,
     y      |-> e.rect.top + w.scrollY,
     width  |-> e.rect.width,
     height |-> e.rect.height]

\* mutant: the count check and the increment come before the size check
addHintCountsFirst(st, type, bbox, label) ==
    LET minSize  == CONTENT_MIN_SIZES[type]
        maxCount == CONTENT_MAX_COUNTS[type]
        counted  == [st EXCEPT !.counts[type] = @ + 1]
    IN  IF st.counts[type] >= maxCount THEN st
        ELSE IF bbox.width < minSize.width \/ bbox.height < minSize.height THEN counted
        ELSE [hints  |-> Append(st.hints, [type |-> type, bbox |-> bbox, label |-> label]),
              counts |-> counted.counts]

\* the closure addHint: st = [hints, counts]; label "" stands for undefined
addHint(st, type, bbox, label) ==
    LET minSize  == CONTENT_MIN_SIZES[type]
        maxCount == CONTENT_MAX_COUNTS[type]
    IN  IF bbox.width < minSize.width \/ bbox.height < minSize.height THEN st
        ELSE IF st.counts[type] >= maxCount THEN st
        ELSE [hints  |-> Append(st.hints, [type |-> type, bbox |-> bbox, label |-> label]),
              counts |-> [st.counts EXCEPT ![type] = @ + 1]]

RECURSIVE addHints(_, _)
addHints(st, calls) ==
    IF calls = <<>> THEN st
    ELSE addHints(addHint(st, Head(calls).type, Head(calls).bbox, Head(calls).label),
                  Tail(calls))

HintCalls(type, boxes) ==
    [k \in 1..Len(boxes) |-> [type |-> type, bbox |-> boxes[k], label |-> ""]]

RECURSIVE UnionBox(_, _, _)
UnionBox(d, js, acc) ==
    IF js = <<>> THEN acc
    ELSE LET b == getAbsoluteBoundingBox(d.el[Head(js)], d.window) IN
         UnionBox(d, Tail(js),
                  IF acc.none
                  THEN [none |-> FALSE, minX |-> b.x, minY |-> b.y,
                        maxX |-> b.x + b.width, maxY |-> b.y + b.height]
                  ELSE [none |-> FALSE,
                        minX |-> Min(acc.minX, b.x), minY |-> Min(acc.minY, b.y),
                        maxX |-> Max(acc.maxX, b.x + b.width),
                        maxY |-> Max(acc.maxY, b.y + b.height)])

\* the addHint calls are made in the order of the source's loops
detectContentHintsUnsafe(d, i) ==
    LET w    == d.window
        desc == Descendants(d, i)
        Tagged(tags) == SelectSeq(desc, LAMBDA j : tagNameOf(d.el[j]) \in tags)
        images == SelectSeq(Tagged({"img", "picture", "figure"}),
                            LAMBDA j : isHTMLElement(d.el[j]) /\ isElementVisible(d.el[j]))
        svgs == SelectSeq(Tagged({"svg"}), LAMBDA j : d.el[j].isSVG)
        largeSvgs == SelectSeq(svgs,
                         LAMBDA j : /\ ~(d.el[j].rect.width = 0 \/ d.el[j].rect.height = 0)
                                    /\ d.el[j].rect.width * d.el[j].rect.height > 400)
        buttons == SelectSeq(desc,
                       LAMBDA j : /\ \/ tagNameOf(d.el[j]) \in {"button", "a"}
                                     \/ /\ tagNameOf(d.el[j]) = "input"
                                        /\ d.el[j].type \in {"submit", "button"}
                                  /\ isHTMLElement(d.el[j])
                                  /\ isButtonElement(d.el[j])
                                  /\ isElementVisible(d.el[j]))
        iconSvgs == SelectSeq(svgs, LAMBDA j : isIconElement(d.el[j]))
        iconFonts == SelectSeq(Tagged({"i", "span"}),
                         LAMBDA j : /\ isHTMLElement(d.el[j])
                                    /\ isIconElement(d.el[j])
                                    /\ isElementVisible(d.el[j]))
        textElements == Tagged({"p", "h1", "h2", "h3", "h4", "h5", "h6"})
        visibleText == SelectSeq(textElements,
                           LAMBDA j : /\ isHTMLElement(d.el[j])
                                      /\ isElementVisible(d.el[j])
                                      /\ ~(d.el[j].rect.width < 20 \/ d.el[j].rect.height < 10))
        u == UnionBox(d, visibleText, [none |-> TRUE])
        imageCalls == HintCalls("image",
                          [k \in 1..Len(images) |-> getAbsoluteBoundingBox(d.el[images[k]], w)])
        svgCalls == HintCalls("image",
                          [k \in 1..Len(largeSvgs) |-> getElementBoundingBox(d.el[largeSvgs[k]], w)])
        buttonCalls ==
            [k \in 1..Len(buttons) |->
                [type  |-> "button",
                 bbox  |-> getAbsoluteBoundingBox(d.el[buttons[k]], w),
                 label |-> slice(trim(textContent(d, buttons[k])), 0, 20)]]
        iconSvgCalls == HintCalls("icon",
                          [k \in 1..Len(iconSvgs) |-> getElementBoundingBox(d.el[iconSvgs[k]], w)])
        iconFontCalls == HintCalls("icon",
                          [k \in 1..Len(iconFonts) |-> getAbsoluteBoundingBox(d.el[iconFonts[k]], w)])
        textCalls ==
            IF Len(textElements) > 0 /\ ~u.none
            THEN HintCalls("text", <<[x |-> u.minX, y |-> u.minY,
                                      width |-> u.maxX - u.minX,
                                      height |-> u.maxY - u.minY]>>)
            ELSE <<>>
        st0 == [hints |-> <<>>, counts |-> [image |-> 0, button |-> 0, text |-> 0, icon |-> 0]]
    IN  addHints(st0, imageCalls \o svgCalls \o buttonCalls \o iconSvgCalls
                          \o iconFontCalls \o textCalls).hints

\* detectContentHintsUnsafe raises: svg.getBoundingClientRect() fails on an
\* <svg> descendant (rectThrows).  Only SVG elements are read by the hint
\* extraction alone; the tree build reads HTML elements only.
detectContentHintsThrows(d, i) ==
    \E j \in Range(Descendants(d, i)) :
        tagNameOf(d.el[j]) = "svg" /\ d.el[j].isSVG /\ d.el[j].rectThrows

\* mutant: no try/catch, the failure goes unnoticed
detectContentHintsUncaught(d, i) == detectContentHintsUnsafe(d, i)

\* try { return detectContentHintsUnsafe(el) } catch (e) { return [] }
detectContentHints(d, i) ==
    IF detectContentHintsThrows(d, i) THEN <<>> ELSE detectContentHintsUnsafe(d, i)

-----------------------------------------------------------------------------
(* Tree reducer                                                            *)

\* mutant: >= in place of >
bboxesSimilarInclusive(a, b) ==
    LET areaA == a.width * a.height
        areaB == b.width * b.height
    IN  areaB * 100 >= areaA * 85

\* areaB > areaA * 0.85
bboxesSimilar(a, b) ==
    LET areaA == a.width * a.height
        areaB == b.width * b.height
    IN  areaB * 100 > areaA * 85

\* mutant: the incremented value is used but not stored back
generateNodeIdNotStored(ctr) == [id |-> "wf-node-" \o ToString(ctr + 1), ctr |-> ctr]

\* `wf-node-${++nodeIdCounter}`
generateNodeId(ctr) == [id |-> "wf-node-" \o ToString(ctr + 1), ctr |-> ctr + 1]

\* The result is [nodes, ctr]: nodes is <<>> for null and <<node>> otherwise,
\* ctr the value of nodeIdCounter after the call.  A node carries the index of
\* its source element in the field src (not a field of WireframeNode).
RECURSIVE buildNodeTree(_, _, _, _, _, _, _)

\* mutant: a non-null result is put in front of the nodes collected so far
pushNodeFront(acc, r) == [nodes |-> r.nodes \o acc.nodes, ctr |-> r.ctr]

\* nodes.push(node) for a non-null result; the counter is the callee's
pushNode(acc, r) == [nodes |-> acc.nodes \o r.nodes, ctr |-> r.ctr]

\* for (const child of ...) { const node = buildNodeTree(child, ...); if (node) push }
\* acc = [nodes, ctr]: the nodes pushed so far and nodeIdCounter
RECURSIVE buildEach(_, _, _, _, _, _, _)
buildEach(d, js, depth, viewportArea, cfg, isGridItem, acc) ==
    IF js = <<>> THEN acc
    ELSE buildEach(d, Tail(js), depth, viewportArea, cfg, isGridItem,
                   pushNode(acc, buildNodeTree(d, Head(js), depth, viewportArea, cfg,
                                               isGridItem, acc.ctr)))

\* mutant: a single child covering most of the element always replaces it
wrapperCollapseAnyChild(d, i, hasGridItems, childNodes) ==
    /\ Len(childNodes) = 1
    /\ ~hasGridItems
    /\ bboxesSimilar(getAbsoluteBoundingBox(d.el[i], d.window), childNodes[1].bbox)

\* the condition under which the single child is returned in place of el
wrapperCollapse(d, i, hasGridItems, childNodes) ==
    /\ Len(childNodes) = 1
    /\ ~hasGridItems
    /\ bboxesSimilar(getAbsoluteBoundingBox(d.el[i], d.window), childNodes[1].bbox)
    /\ \/ ~isLandmark(d.el[i]) /\ childNodes[1].isLandmark
       \/ /\ generateLabel(d, i) \in {"Block", "Section"}
          /\ childNodes[1].label \notin {"Block", "Section"}

\* const node: WireframeNode = { id: generateNodeId(), ... }
createNode(d, i, depth, isGridItem, childNodes, label, newId) ==
    [nodes |-> << [id           |-> newId.id,
                   tagName      |-> tagNameOf(d.el[i]),
                   label        |-> label,
                   bbox         |-> getAbsoluteBoundingBox(d.el[i], d.window),
                   depth        |-> depth,
                   children     |-> childNodes,
                   isLandmark   |-> isLandmark(d.el[i]),
                   semanticType |-> IF isGridItem THEN "card"
                                    ELSE getSemanticType(d.el[i], label),
                   contentHints |-> detectContentHints(d, i),
                   src          |-> i] >>,
     ctr |-> newId.ctr]

\* mutant: an insignificant element with several child nodes returns the
\* first of them
reduceNodeFirstChild(d, i, depth, isGridItem, significant, hasGridItems, built) ==
    IF ~significant
    THEN IF Len(built.nodes) >= 1
         THEN [nodes |-> <<built.nodes[1]>>, ctr |-> built.ctr]
         ELSE [nodes |-> <<>>, ctr |-> built.ctr]
    ELSE IF wrapperCollapse(d, i, hasGridItems, built.nodes) THEN built
    ELSE createNode(d, i, depth, isGridItem, built.nodes,
                    IF isGridItem THEN inferGridItemLabel(d, i) ELSE generateLabel(d, i),
                    generateNodeId(built.ctr))

\* buildNodeTree once the children are built: built = [nodes, ctr] is
\* childNodes and nodeIdCounter
reduceNode(d, i, depth, isGridItem, significant, hasGridItems, built) ==
    IF ~significant
    THEN IF Len(built.nodes) = 1 THEN built
         ELSE [nodes |-> <<>>, ctr |-> built.ctr]
    ELSE IF wrapperCollapse(d, i, hasGridItems, built.nodes) THEN built
    ELSE createNode(d, i, depth, isGridItem, built.nodes,
                    IF isGridItem THEN inferGridItemLabel(d, i) ELSE generateLabel(d, i),
                    generateNodeId(built.ctr))

\* buildNodeTree once gridItems is known (<<>> stands for null)
buildChildren(d, i, depth, viewportArea, cfg, isGridItem, ctr, significant, gridItems) ==
    reduceNode(d, i, depth, isGridItem, significant, gridItems # <<>>,
        IF gridItems # <<>>
        THEN buildEach(d,
                 SelectSeq(Children(d, i),
                           LAMBDA j : isHTMLElement(d.el[j]) /\ isLandmark(d.el[j])),
                 depth + 1, viewportArea, cfg, FALSE,
                 buildEach(d, gridItems, depth + 1, viewportArea, cfg, TRUE,
                           [nodes |-> <<>>, ctr |-> ctr]))
        ELSE IF ~isGridItem
        THEN buildEach(d, SelectSeq(Children(d, i), LAMBDA j : isHTMLElement(d.el[j])),
                       IF significant THEN depth + 1 ELSE depth,
                       viewportArea, cfg, FALSE, [nodes |-> <<>>, ctr |-> ctr])
        ELSE [nodes |-> <<>>, ctr |-> ctr])

\* buildNodeTree once significant is known
detectAndBuild(d, i, depth, viewportArea, cfg, isGridItem, ctr, significant) ==
    buildChildren(d, i, depth, viewportArea, cfg, isGridItem, ctr, significant,
                  IF significant /\ ~isGridItem THEN detectGridItems(d, i) ELSE <<>>)

\* mutant: the depth ceiling one level deeper, for every element
buildNodeTreeCeilingBelow(d, i, depth, viewportArea, cfg, isGridItem, ctr) ==
    IF depth > cfg.maxDepth + 1 THEN [nodes |-> <<>>, ctr |-> ctr]
    ELSE IF ~isElementVisible(d.el[i]) THEN [nodes |-> <<>>, ctr |-> ctr]
    ELSE detectAndBuild(d, i, depth, viewportArea, cfg, isGridItem, ctr,
                        isGridItem \/ isSignificant(d.el[i], viewportArea, cfg))

\* mutant: the depth ceiling applied to grid items too
buildNodeTreeCeilingForAll(d, i, depth, viewportArea, cfg, isGridItem, ctr) ==
    IF depth > cfg.maxDepth THEN [nodes |-> <<>>, ctr |-> ctr]
    ELSE IF ~isElementVisible(d.el[i]) THEN [nodes |-> <<>>, ctr |-> ctr]
    ELSE detectAndBuild(d, i, depth, viewportArea, cfg, isGridItem, ctr,
                        isGridItem \/ isSignificant(d.el[i], viewportArea, cfg))

buildNodeTree(d, i, depth, viewportArea, cfg, isGridItem, ctr) ==
    IF depth > cfg.maxDepth /\ ~isGridItem THEN [nodes |-> <<>>, ctr |-> ctr]
    ELSE IF ~isElementVisible(d.el[i]) THEN [nodes |-> <<>>, ctr |-> ctr]
    ELSE detectAndBuild(d, i, depth, viewportArea, cfg, isGridItem, ctr,
                        isGridItem \/ isSignificant(d.el[i], viewportArea, cfg))

\* { ...DEFAULT_CONFIG, ...config }
mergeConfig(cfg) ==
    [f \in DOMAIN DEFAULT_CONFIG \cup DOMAIN cfg |->
        IF f \in DOMAIN cfg THEN cfg[f] ELSE DEFAULT_CONFIG[f]]

\* the WireframeModel returned, with nodeIdCounter after the call
wireframeModel(d, r) ==
    [nodes    |-> r.nodes,
     viewport |-> [width |-> d.window.innerWidth, height |-> d.window.innerHeight],
     ctr      |-> r.ctr]

\* mutant: analyzeDom without the reset of nodeIdCounter at entry
analyzeDomNoReset(d, cfg, ctr) ==
    wireframeModel(d,
        buildEach(d, SelectSeq(Children(d, 0), LAMBDA j : isHTMLElement(d.el[j])),
                  0, d.window.innerWidth * d.window.innerHeight, mergeConfig(cfg), FALSE,
                  [nodes |-> <<>>, ctr |-> ctr]))

\* ctr is nodeIdCounter at the call; the result is the model's nodes and
\* viewport, and nodeIdCounter after the call
analyzeDom(d, cfg, ctr) ==
    wireframeModel(d,
        buildEach(d, SelectSeq(Children(d, 0), LAMBDA j : isHTMLElement(d.el[j])),
                  0, d.window.innerWidth * d.window.innerHeight, mergeConfig(cfg), FALSE,
                  [nodes |-> <<>>, ctr |-> 0]))

\* flattenNodes: the nodes of a list of trees, each before its descendants
RECURSIVE flattenNodes(_)
flattenNodes(nodes) ==
    IF nodes = <<>> THEN <<>>
    ELSE <<Head(nodes)>> \o flattenNodes(Head(nodes).children) \o flattenNodes(Tail(nodes))

-----------------------------------------------------------------------------
(* Bounded inputs                                                          *)

MaxElems == 3

MaxRuns == 2

MaxDomChanges == 1

ViewportWidth == 1280

ViewportHeight == 800

Window == [innerWidth |-> ViewportWidth, innerHeight |-> ViewportHeight,
           scrollX |-> 0, scrollY |-> 0]

\* an HTML element with default computed style, no attributes, at the origin
Elem(tagName, className, width, height) ==
    [tagName |-> tagName, isSVG |-> FALSE, id |-> "", className |-> className,
     role |-> "", type |-> "", display |-> "block", flexDirection |-> "row",
     visibility |-> "visible", opacity |-> 100,
     rect |-> [left |-> 0, top |-> 0, width |-> width, height |-> height],
     ownText |-> "", rectThrows |-> FALSE]

\* elements of the pages analysed under Spec
PaletteMain ==
    { Elem("HEADER", "", ViewportWidth, 80),
      Elem("DIV", "", 280, 200),
      Elem("DIV", "page", ViewportWidth, ViewportHeight),
      Elem("SECTION", "", ViewportWidth, 720),
      [Elem("DIV", "card-grid", ViewportWidth, 400) EXCEPT !.display = "flex"],
      [Elem("NAV", "", ViewportWidth, 80) EXCEPT !.display = "none"] }

\* parent arrays of the forests of n elements numbered in document order: the
\* parent of i is <body> or lies on the path from i - 1 to <body>
ParentArrays(n) ==
    {p \in [1..n -> 0..n] :
        \A i \in 1..n :
            /\ p[i] < i
            /\ i > 1 /\ p[i] # 0 =>
                  \/ p[i] = i - 1
                  \/ IsAncestor([n |-> n, parent |-> p], p[i], i - 1)}

Doms(maxN, palette, windows) ==
    UNION {{[n |-> n, parent |-> p, el |-> e, window |-> w] :
               p \in ParentArrays(n), e \in [1..n -> palette], w \in windows} :
           n \in 0..maxN}

Configs == {<<>>, [maxDepth |-> 1]}

MaxElemsCollapse == 2

\* elements of the pages analysed under SpecCollapse: landmarks and
\* non-landmarks, with and without a low-information label, of 100%, 90%,
\* exactly 85% and 80% of the viewport area
PaletteCollapse ==
    UNION {{ Elem("SECTION", "", ViewportWidth, h),
             Elem("HEADER", "", ViewportWidth, h),
             Elem("DIV", "hero", ViewportWidth, h),
             Elem("DIV", "page", ViewportWidth, h) } : h \in {800, 720, 680, 640}}

MaxElemsScenario == 3

HeaderWithId == [Elem("HEADER", "", ViewportWidth, 80) EXCEPT !.id = "header"]

NavWithRole == [Elem("NAV", "", ViewportWidth, 80) EXCEPT !.role = "navigation"]

ContactButton ==
    [Elem("A", "btn", 120, 40) EXCEPT
        !.rect.left = 1100, !.rect.top = 20, !.ownText = "Contact"]

\* elements of the pages analysed under SpecScenario
PaletteScenario ==
    { HeaderWithId, NavWithRole, ContactButton,
      [ContactButton EXCEPT !.className = ""],
      Elem("DIV", "", ViewportWidth, 80) }

\* <header id="header"><nav role="navigation"><a class="btn">Contact</a></nav></header>
EndToEndDom ==
    [n |-> 3, parent |-> <<0, 1, 2>>,
     el |-> <<HeaderWithId, NavWithRole, ContactButton>>, window |-> Window]

MaxGridChildren == 5

MaxImages == 7

MaxButtons == 4

MaxIcons == 7

MaxTexts == 3

MaxMixed == 3

SvgElem(width, height) ==
    [Elem("svg", "", width, height) EXCEPT !.isSVG = TRUE]

MaxElemsFailure == 4

\* elements of the pages analysed under SpecFailure: a landmark, an image and
\* an <svg> that raises when its client rectangle is read
PaletteFailure ==
    { Elem("HEADER", "", ViewportWidth, 80),
      Elem("IMG", "", 100, 100),
      [SvgElem(16, 16) EXCEPT !.rectThrows = TRUE] }

\* descendants of the <section> of the pages analysed under SpecHints, by the
\* hint type they are candidates for; each family has members below the
\* type's minimum size
ImageKinds == {Elem("IMG", "", 100, 100), Elem("IMG", "", 20, 20), SvgElem(100, 100)}

ButtonKinds ==
    { [Elem("BUTTON", "", 120, 40) EXCEPT !.ownText = " Contact "],
      [Elem("A", "btn btn-primary", 120, 40) EXCEPT !.ownText = "Go"],
      [Elem("A", "", 120, 40) EXCEPT !.ownText = "Home"],
      Elem("BUTTON", "", 40, 10) }

IconKinds == {SvgElem(16, 16), Elem("I", "fa fa-home", 16, 16), SvgElem(8, 8)}

TextKinds ==
    {Elem("P", "", 600, 20), Elem("H2", "", 400, 40), Elem("P", "", 30, 10),
     Elem("P", "", 10, 10)}

MixedKinds ==
    { Elem("IMG", "", 100, 100),
      [Elem("IMG", "", 100, 100) EXCEPT !.opacity = 0],
      [SvgElem(100, 100) EXCEPT !.visibility = "hidden"],
      [Elem("BUTTON", "", 120, 40) EXCEPT !.ownText = "Buy"],
      Elem("SPAN", "icon", 16, 16),
      Elem("P", "", 600, 20) }

\* <body> holds one <section> with up to maxKids children of the given kinds,
\* the k-th of them 100 * k px down the page
DomsFlat(kinds, maxKids) ==
    UNION {{[n |-> k + 1,
             parent |-> [j \in 1..(k + 1) |-> IF j = 1 THEN 0 ELSE 1],
             el |-> <<Elem("SECTION", "", ViewportWidth, ViewportHeight)>>
                       \o [j \in 1..k |-> [kids[j] EXCEPT !.rect.top = 100 * j]],
             window |-> Window] : kids \in [1..k -> kinds]} :
           k \in 0..maxKids}

DomsHints ==
    DomsFlat(ImageKinds, MaxImages) \cup DomsFlat(ButtonKinds, MaxButtons)
        \cup DomsFlat(IconKinds, MaxIcons) \cup DomsFlat(TextKinds, MaxTexts)
        \cup DomsFlat(MixedKinds, MaxMixed)

GridContainer == [Elem("DIV", "card-grid", ViewportWidth, 400) EXCEPT !.display = "flex"]

\* children of the flex container of the pages analysed under SpecGrid: two
\* card-sized boxes within 5% of 280x200, a box of width 100 outside the 30%
\* tolerance, a decorative box of 1000 px2, a landmark
PaletteGrid ==
    { Elem("DIV", "", 280, 200),
      Elem("DIV", "card", 266, 210),
      Elem("DIV", "", 100, 200),
      Elem("DIV", "", 100, 10),
      Elem("HEADER", "", ViewportWidth, 80) }

\* <body> holds one row-flex container with up to maxKids children
DomsGrid(maxKids) ==
    UNION {{[n |-> k + 1,
             parent |-> [j \in 1..(k + 1) |-> IF j = 1 THEN 0 ELSE 1],
             el |-> <<GridContainer>> \o kids,
             window |-> Window] : kids \in [1..k -> PaletteGrid]} :
           k \in 0..maxKids}

-----------------------------------------------------------------------------
(* The wireframe_page tool of the MCP server (mcp-server/src)               *)
(*   pipeline.pc        where the tool handler stands                      *)
(*   pipeline.started   the pipeline steps started, in order               *)
(*   pipeline.finished  the pipeline steps that resolved, in order         *)
(*   pipeline.browser   "none", "open", "closed": the Playwright browser   *)
(*   pipeline.tempFile  "none", "written", "deleted", "left": the prompt   *)
(*                      file; "left" after an unlink that failed           *)
(*   pipeline.error     <<>> or <<e>>: the value thrown and not yet caught *)
(*   pipeline.response  <<>> or <<r>>: what the handler returned           *)
(*   pipeline.calls     tool invocations so far                            *)

MaxInvocations == 3

PipelineIdle ==
    [pc |-> "idle", started |-> <<>>, finished |-> <<>>, browser |-> "none",
     tempFile |-> "none", error |-> <<>>, response |-> <<>>, calls |-> 0]

\* new Error(message)
Error(message) == [instanceOfError |-> TRUE, message |-> message]

\* what an awaited library call can throw: an Error, or a value that is none
Thrown(message) == {Error(message), [instanceOfError |-> FALSE, message |-> ""]}

\* mutant: the catch block of the tool handler rethrows
toolCatchRethrowing(error) == [thrown |-> TRUE, isError |-> TRUE, text |-> error.message]

\* index.ts:111-126, the catch block of the tool handler
toolCatch(error) ==
    [thrown |-> FALSE, isError |-> TRUE,
     text |-> "Failed to generate wireframe: "
                 \o (IF error.instanceOfError THEN error.message
                     ELSE "Unknown error occurred")]

\* index.ts:103-110
toolResult == [thrown |-> FALSE, isError |-> FALSE, text |-> "Generated wireframe"]

\* a step of wireframePage rejected with p.error: the handler's catch block
\* runs and the handler returns
failTool(p) ==
    [p EXCEPT !.pc = "idle", !.response = <<toolCatch(p.error[1])>>, !.error = <<>>]

\* mutant: the browser is closed on the success path only
gatherFinallyOnSuccess(p) ==
    IF p.browser = "open" /\ p.error = <<>> THEN [p EXCEPT !.browser = "closed"] ELSE p

\* index.ts:508-514, the finally block of gatherDom
gatherFinally(p) ==
    IF p.browser = "open" THEN [p EXCEPT !.browser = "closed"] ELSE p

\* mutant: an unlink that fails rejects generateModel
generateFinallyThrowing(p, unlinked) ==
    IF unlinked THEN [p EXCEPT !.tempFile = "deleted"]
    ELSE [p EXCEPT !.tempFile = "left", !.error = <<Error("ENOENT")>>]

\* model-generator.ts:200-208, the finally block of generateModel: unlink
\* succeeds or fails, the failure is swallowed
generateFinally(p, unlinked) ==
    [p EXCEPT !.tempFile = IF unlinked THEN "deleted" ELSE "left"]

\* mutant: generateModel is called whatever gatherDom did
afterStepRegardless(p, step, next, nextPc) ==
    [p EXCEPT !.pc = nextPc, !.started = Append(@, next), !.error = <<>>,
              !.finished = IF p.error = <<>> THEN Append(@, step) ELSE @]

\* wireframe-page.ts:67-85: an awaited step settled; on success the next step
\* is called, on failure wireframePage rejects and the handler catches
afterStep(p, step, next, nextPc) ==
    IF p.error # <<>> THEN failTool(p)
    ELSE [p EXCEPT !.pc = nextPc, !.finished = Append(@, step),
                   !.started = Append(@, next)]

-----------------------------------------------------------------------------
(* The dev server (scripts/dev-server.js)                                   *)
(*   devServer.pc          "loaded", "listen", "listening", "timer", "exited" *)
(*   devServer.port        the port of process.argv[2]                     *)
(*   devServer.retryCount  the argument of the last startServer call       *)
(*   devServer.starts      calls of startServer so far                     *)
(*   devServer.code        err.code of the last "error" event, or ""       *)
(*   devServer.pids        the pids that lsof listed in the last handler   *)
(*   devServer.killed      those of them whose kill command succeeded      *)
(*   devServer.exit        <<>> or <<c>>: the argument of process.exit     *)

DEFAULT_PORT == 9876

MaxPids == 2

DevServerLoaded ==
    [pc |-> "loaded", port |-> 0, retryCount |-> 0, starts |-> 0, code |-> "",
     pids |-> {}, killed |-> {}, exit |-> <<>>]

\* mutant: a port nobody holds counts as freed
killProcessOnPortAlways(lsofThrows, pids) == TRUE

\* dev-server.js:21-39: lsof throws when it finds no process; the kill of
\* each pid may fail, which is ignored
killProcessOnPort(lsofThrows, pids) ==
    IF lsofThrows THEN FALSE ELSE Cardinality(pids) > 0

\* dev-server.js:75-76, 102: startServer(port, retryCount) creates a server and
\* calls listen
startServer(d, port, retryCount) ==
    [d EXCEPT !.pc = "listen", !.port = port, !.retryCount = retryCount,
              !.starts = @ + 1]

\* dev-server.js:78-100: the "error" handler of the server; killed is the result
\* of killProcessOnPort, computed only on the first EADDRINUSE
onServerError(d, code, killed) ==
    IF code = "EADDRINUSE"
    THEN IF d.retryCount = 0
         THEN IF killed THEN [d EXCEPT !.pc = "timer", !.code = code]
              ELSE [d EXCEPT !.pc = "exited", !.code = code, !.exit = <<1>>]
         ELSE [d EXCEPT !.pc = "exited", !.code = code, !.exit = <<1>>]
    ELSE [d EXCEPT !.pc = "exited", !.code = code, !.exit = <<1>>]

-----------------------------------------------------------------------------
(* The overlay of main.ts and the renderer it calls                         *)
(*   state.model, state.canvas, state.canvasContainer: <<>> for null,      *)
(*       <<v>> otherwise                                                   *)
(*   state.labelOverrides: the Map, a function from node ids to labels     *)
(*   state.badges: the BadgeInfo records, by nodeId and label (their       *)
(*       position and size are left out)                                   *)
(*   state.canvasScale: <<p, q>> for p / q                                 *)
(*   page.overlays: the elements with id OVERLAY_ID in the document        *)
(*   page.escapeHandlers: the handleEscape listeners on the document       *)
(*   page.created: createOverlay calls so far                              *)

MaxOverlays == 3

StateLoaded ==
    [model |-> <<>>, canvas |-> <<>>, showLabels |-> FALSE, labelOverrides |-> <<>>,
     badges |-> <<>>, canvasContainer |-> <<>>, canvasScale |-> <<1, 1>>]

PageLoaded == [overlays |-> 0, escapeHandlers |-> 0, created |-> 0]

\* renderer: getBorderWidth(depth)
getBorderWidth(depth) == IF depth = 0 THEN 3 ELSE IF depth <= 2 THEN 2 ELSE 1

\* renderer: renderNode(ctx, node, config), <<>> for null
renderNode(node, showLabels, labelOverrides) ==
    LET w == node.bbox.width - getBorderWidth(node.depth)
        h == node.bbox.height - getBorderWidth(node.depth)
        displayLabel == IF node.id \in DOMAIN labelOverrides
                        THEN labelOverrides[node.id] ELSE node.label
    IN  IF w < 10 \/ h < 10 THEN <<>>
        ELSE IF showLabels /\ w > 60 /\ h > 30 /\ displayLabel # ""
        THEN <<[nodeId |-> node.id, label |-> displayLabel]>>
        ELSE <<>>

\* renderer: renderNodeTree(ctx, nodes, config, badges), the badges pushed
RECURSIVE renderNodeTree(_, _, _)
renderNodeTree(nodes, showLabels, labelOverrides) ==
    IF nodes = <<>> THEN <<>>
    ELSE renderNode(Head(nodes), showLabels, labelOverrides)
            \o renderNodeTree(Head(nodes).children, showLabels, labelOverrides)
            \o renderNodeTree(Tail(nodes), showLabels, labelOverrides)

\* renderer: renderWireframe(model, canvas, config)
renderWireframe(nodes, showLabels, labelOverrides) ==
    renderNodeTree(nodes, showLabels, labelOverrides)

\* labelOverrides.set(nodeId, label)
MapSet(map, key, value) ==
    [k \in DOMAIN map \cup {key} |-> IF k = key THEN value ELSE map[k]]

\* main.ts:176-185 rerender()
rerender(st) ==
    IF st.model = <<>> \/ st.canvas = <<>> THEN st
    ELSE [st EXCEPT !.badges = renderWireframe(st.model[1], st.showLabels, st.labelOverrides)]

\* mutant: the overrides survive the overlay
removeOverlayKeepingOverrides(st, pg) ==
    IF pg.overlays > 0
    THEN [state |-> [st EXCEPT !.model = <<>>, !.canvas = <<>>, !.canvasContainer = <<>>,
                               !.badges = <<>>, !.canvasScale = <<1, 1>>],
          page  |-> [pg EXCEPT !.overlays = @ - 1]]
    ELSE [state |-> st, page |-> pg]

\* main.ts:404-416 removeOverlay(): the result is state and page
removeOverlay(st, pg) ==
    IF pg.overlays > 0
    THEN [state |-> [st EXCEPT !.model = <<>>, !.canvas = <<>>, !.canvasContainer = <<>>,
                               !.badges = <<>>, !.labelOverrides = <<>>,
                               !.canvasScale = <<1, 1>>],
          page  |-> [pg EXCEPT !.overlays = @ - 1]]
    ELSE [state |-> st, page |-> pg]

\* Math.min(1, scaleX) with scaleX = availableWidth / canvas.width
scaleToFit(availableWidth, width) ==
    IF availableWidth >= width THEN <<1, 1>> ELSE <<availableWidth, width>>

\* main.ts:287-399 createOverlay() after analyzeDom returned nodes: r is state
\* and page after the removeOverlay() of line 289
buildOverlay(r, nodes, window) ==
    [state |-> [r.state EXCEPT
                   !.model = <<nodes>>,
                   !.canvas = <<[width |-> window.innerWidth]>>,
                   !.badges = renderWireframe(nodes, r.state.showLabels,
                                              r.state.labelOverrides),
                   !.canvasContainer = <<"div">>,
                   !.canvasScale = scaleToFit(window.innerWidth - 40 * 2,
                                              window.innerWidth)],
     page  |-> [r.page EXCEPT !.overlays = @ + 1, !.escapeHandlers = @ + 1,
                              !.created = @ + 1]]

\* main.ts:389-395 the handleEscape listeners run one after the other on an
\* Escape keydown; each calls removeOverlay() and removes itself
RECURSIVE handleEscape(_, _)
handleEscape(r, listeners) ==
    IF listeners = 0 THEN r
    ELSE handleEscape([state |-> removeOverlay(r.state, r.page).state,
                       page  |-> [removeOverlay(r.state, r.page).page
                                     EXCEPT !.escapeHandlers = @ - 1]],
                      listeners - 1)

-----------------------------------------------------------------------------
(* The state machine                                                       *)

InitWith(ds, cfgs) ==
    /\ dom \in ds
    /\ config \in cfgs
    /\ nodeIdCounter = 0
    /\ model = <<>>
    /\ prevModel = <<>>
    /\ runs = 0
    /\ domChanges = 0
    /\ unchanged = FALSE
    /\ stack = <<>>
    /\ visits = <<>>
    /\ verdict = [fn |-> "none"]
    /\ pipeline = PipelineIdle
    /\ devServer = DevServerLoaded
    /\ state = StateLoaded
    /\ page = PageLoaded

Init == InitWith(Doms(MaxElems, PaletteMain, {Window}), Configs)

\* mutant: the nodes array is module state that is never cleared, so a call
\* appends to the nodes of the calls before it
AnalyzeDomAppending ==
    /\ runs < MaxRuns
    /\ \E r \in {analyzeDom(dom, config, nodeIdCounter)} :
          /\ model' = model \o r.nodes
          /\ nodeIdCounter' = r.ctr
    /\ prevModel' = model
    /\ runs' = runs + 1
    /\ unchanged' = (runs >= 1 /\ domChanges = 0)
    /\ domChanges' = 0
    /\ UNCHANGED <<dom, config, stack, visits, verdict, pipeline, devServer, state, page>>

\* main.ts:293 createOverlay calls analyzeDom(document) each time the overlay
\* is opened; the counter is module state of analyzer.ts
AnalyzeDom ==
    /\ runs < MaxRuns
    /\ \E r \in {analyzeDom(dom, config, nodeIdCounter)} :
          /\ model' = r.nodes
          /\ nodeIdCounter' = r.ctr
    /\ prevModel' = model
    /\ runs' = runs + 1
    /\ unchanged' = (runs >= 1 /\ domChanges = 0)
    /\ domChanges' = 0
    /\ UNCHANGED <<dom, config, stack, visits, verdict, pipeline, devServer, state, page>>

\* the page removes its last element between two analyses (before the first
\* analysis the choice of the initial tree covers it)
RemoveLastElement ==
    /\ runs >= 1
    /\ runs < MaxRuns
    /\ domChanges < MaxDomChanges
    /\ dom.n > 0
    /\ dom' = [dom EXCEPT !.n = @ - 1,
                          !.parent = SubSeq(@, 1, dom.n - 1),
                          !.el = SubSeq(@, 1, dom.n - 1)]
    /\ domChanges' = domChanges + 1
    /\ UNCHANGED <<config, nodeIdCounter, model, prevModel, runs, unchanged,
                    stack, visits, verdict, pipeline, devServer, state, page>>

Next == AnalyzeDom \/ RemoveLastElement

Spec == Init /\ [][Next]_vars

InitCollapse == InitWith(Doms(MaxElemsCollapse, PaletteCollapse, {Window}), {<<>>})

SpecCollapse == InitCollapse /\ [][Next]_vars

InitHints == InitWith(DomsHints, {<<>>})

SpecHints == InitHints /\ [][Next]_vars

InitScenario == InitWith(Doms(MaxElemsScenario, PaletteScenario, {Window}), {<<>>})

SpecScenario == InitScenario /\ [][Next]_vars

InitFailure == InitWith(Doms(MaxElemsFailure, PaletteFailure, {Window}), {<<>>})

SpecFailure == InitFailure /\ [][Next]_vars

MaxElemsThreshold == 2

\* classed divs of 6.25% and 12.5% of the viewport (either side of the 10% of
\* the div rule), a landmark, a full-page div
PaletteThreshold ==
    { Elem("DIV", "page", 320, 200),
      Elem("DIV", "page", 320, 400),
      Elem("SECTION", "", ViewportWidth, 400),
      Elem("DIV", "page", ViewportWidth, ViewportHeight) }

\* values of config.viewportAreaThreshold, in percent
Thresholds == {2, 8, 50}

ConfigsThreshold == {<<>>} \cup {[viewportAreaThreshold |-> t] : t \in Thresholds}

InitThreshold ==
    InitWith(Doms(MaxElemsThreshold, PaletteThreshold, {Window}), ConfigsThreshold)

SpecThreshold == InitThreshold /\ [][Next]_vars

MaxElemsGridItems == 4

\* a row-flex container with a structural class, a card-sized div the
\* classifier rejects, a landmark
PaletteGridItems ==
    { GridContainer,
      Elem("DIV", "", 280, 200),
      Elem("HEADER", "", ViewportWidth, 80) }

InitGridItems ==
    InitWith(Doms(MaxElemsGridItems, PaletteGridItems, {Window}), {<<>>, [maxDepth |-> 0]})

SpecGridItems == InitGridItems /\ [][Next]_vars

InitGrid == InitWith(DomsGrid(MaxGridChildren), {<<>>})

SpecGrid == InitGrid /\ [][Next]_vars

-----------------------------------------------------------------------------
(* analyzeDom call by call: every buildNodeTree activation is a frame of   *)
(* stack, the last frame the running one; frame 1 is analyzeDom's loop     *)
(* over body.children.                                                     *)

MaxElemsSteps == 3

\* elements of the pages analysed under SpecSteps: an insignificant wrapper,
\* a landmark, a row-flex container and a significant div
PaletteSteps ==
    { Elem("DIV", "", 280, 200),
      Elem("HEADER", "", ViewportWidth, 80),
      [Elem("DIV", "card-grid", ViewportWidth, 400) EXCEPT !.display = "flex"],
      Elem("DIV", "page", ViewportWidth, ViewportHeight) }

\* a buildNodeTree call still to be made
Call(j, depth, isGridItem) == [i |-> j, depth |-> depth, isGridItem |-> isGridItem]

Calls(js, depth, isGridItem) == [k \in DOMAIN js |-> Call(js[k], depth, isGridItem)]

\* mutant: the second loop of the grid branch takes every child
pendingCallsEveryChild(d, i, depth, isGridItem, significant, gridItems) ==
    IF gridItems # <<>>
    THEN Calls(gridItems, depth + 1, TRUE)
           \o Calls(SelectSeq(Children(d, i), LAMBDA j : isHTMLElement(d.el[j])),
                    depth + 1, FALSE)
    ELSE IF ~isGridItem
    THEN Calls(SelectSeq(Children(d, i), LAMBDA j : isHTMLElement(d.el[j])),
               IF significant THEN depth + 1 ELSE depth, FALSE)
    ELSE <<>>

\* mutant: the children of an insignificant element built one level deeper too
pendingCallsAlwaysDeeper(d, i, depth, isGridItem, significant, gridItems) ==
    IF gridItems # <<>>
    THEN Calls(gridItems, depth + 1, TRUE)
           \o Calls(SelectSeq(Children(d, i),
                              LAMBDA j : isHTMLElement(d.el[j]) /\ isLandmark(d.el[j])),
                    depth + 1, FALSE)
    ELSE IF ~isGridItem
    THEN Calls(SelectSeq(Children(d, i), LAMBDA j : isHTMLElement(d.el[j])),
               depth + 1, FALSE)
    ELSE <<>>

\* the recursive calls buildNodeTree makes on element i, in order
pendingCalls(d, i, depth, isGridItem, significant, gridItems) ==
    IF gridItems # <<>>
    THEN Calls(gridItems, depth + 1, TRUE)
           \o Calls(SelectSeq(Children(d, i),
                              LAMBDA j : isHTMLElement(d.el[j]) /\ isLandmark(d.el[j])),
                    depth + 1, FALSE)
    ELSE IF ~isGridItem
    THEN Calls(SelectSeq(Children(d, i), LAMBDA j : isHTMLElement(d.el[j])),
               IF significant THEN depth + 1 ELSE depth, FALSE)
    ELSE <<>>

\* the activation of buildNodeTree(el, depth, ..., isGridItem) past its two
\* early returns, with significant and gridItems computed
newFrame(d, c, significant, gridItems) ==
    [i |-> c.i, depth |-> c.depth, isGridItem |-> c.isGridItem,
     significant |-> significant, hasGridItems |-> gridItems # <<>>,
     pending |-> pendingCalls(d, c.i, c.depth, c.isGridItem, significant, gridItems),
     nodes |-> <<>>]

enterFrame(d, c, significant) ==
    newFrame(d, c, significant,
             IF significant /\ ~c.isGridItem THEN detectGridItems(d, c.i) ELSE <<>>)

\* analyzeDom entry: the counter is reset and the loop over body.children starts
BeginAnalyzeDom ==
    /\ stack = <<>>
    /\ runs < MaxRuns
    /\ nodeIdCounter' = 0
    /\ visits' = [j \in 1..dom.n |-> 0]
    /\ stack' = << [i |-> 0, depth |-> 0, isGridItem |-> FALSE, significant |-> TRUE,
                    hasGridItems |-> FALSE,
                    pending |-> Calls(SelectSeq(Children(dom, 0),
                                                LAMBDA j : isHTMLElement(dom.el[j])),
                                      0, FALSE),
                    nodes |-> <<>>] >>
    /\ UNCHANGED <<dom, config, model, prevModel, runs, domChanges, unchanged, verdict,
                   pipeline, devServer, state, page>>

\* the running activation calls buildNodeTree on its next child; a call that
\* takes one of the two early returns is over at once
CallBuildNodeTree ==
    /\ stack # <<>>
    /\ stack[Len(stack)].pending # <<>>
    /\ \E c \in {Head(stack[Len(stack)].pending)} :
          /\ visits' = [visits EXCEPT ![c.i] = @ + 1]
          /\ stack' =
                IF \/ c.depth > mergeConfig(config).maxDepth /\ ~c.isGridItem
                   \/ ~isElementVisible(dom.el[c.i])
                THEN [stack EXCEPT ![Len(stack)].pending = Tail(@)]
                ELSE Append([stack EXCEPT ![Len(stack)].pending = Tail(@)],
                            enterFrame(dom, c,
                                c.isGridItem
                                  \/ isSignificant(dom.el[c.i],
                                         dom.window.innerWidth * dom.window.innerHeight,
                                         mergeConfig(config))))
    /\ UNCHANGED <<dom, config, nodeIdCounter, model, prevModel, runs, domChanges,
                   unchanged, verdict, pipeline, devServer, state, page>>

\* the running activation has made all its calls: it returns null, its single
\* child or a new node, which the caller pushes
ReturnBuildNodeTree ==
    /\ Len(stack) >= 2
    /\ stack[Len(stack)].pending = <<>>
    /\ \E r \in {reduceNode(dom, stack[Len(stack)].i, stack[Len(stack)].depth,
                            stack[Len(stack)].isGridItem, stack[Len(stack)].significant,
                            stack[Len(stack)].hasGridItems,
                            [nodes |-> stack[Len(stack)].nodes, ctr |-> nodeIdCounter])} :
          /\ nodeIdCounter' = r.ctr
          /\ stack' = [SubSeq(stack, 1, Len(stack) - 1)
                          EXCEPT ![Len(stack) - 1].nodes = @ \o r.nodes]
    /\ UNCHANGED <<dom, config, model, prevModel, runs, domChanges, unchanged, visits,
                   verdict, pipeline, devServer, state, page>>

\* analyzeDom returns the model
EndAnalyzeDom ==
    /\ Len(stack) = 1
    /\ stack[1].pending = <<>>
    /\ model' = stack[1].nodes
    /\ prevModel' = model
    /\ runs' = runs + 1
    /\ unchanged' = (runs >= 1 /\ domChanges = 0)
    /\ domChanges' = 0
    /\ stack' = <<>>
    /\ UNCHANGED <<dom, config, nodeIdCounter, visits, verdict, pipeline, devServer, state,
                   page>>

NextSteps == BeginAnalyzeDom \/ CallBuildNodeTree \/ ReturnBuildNodeTree \/ EndAnalyzeDom

InitSteps == InitWith(Doms(MaxElemsSteps, PaletteSteps, {Window}), Configs)

SpecSteps == InitSteps /\ [][NextSteps]_vars

-----------------------------------------------------------------------------
(* The classifier functions of analyzer.ts called one at a time             *)

MaxClassTokens == 2

RECURSIVE JoinTokens(_)
JoinTokens(tokens) ==
    IF tokens = <<>> THEN ""
    ELSE IF Len(tokens) = 1 THEN tokens[1]
    ELSE tokens[1] \o " " \o JoinTokens(Tail(tokens))

\* the class attributes made of at most maxTokens of the given tokens
ClassStrings(tokens, maxTokens) ==
    {JoinTokens(t) : t \in UNION {[1..k -> tokens] : k \in 0..maxTokens}}

\* <body> holds the one element e, followed by its children kids
DomsOf(elems, kidss) ==
    {[n |-> 1 + Len(kids),
      parent |-> [j \in 1..(1 + Len(kids)) |-> IF j = 1 THEN 0 ELSE 1],
      el |-> <<e>> \o kids,
      window |-> Window] : e \in elems, kids \in kidss}

\* a div, a tag that is neither skipped nor a landmark, a skipped tag and a
\* landmark tag; without and with a landmark role; generic, structural and
\* other class tokens; areas below minArea, between minArea and 10% of the
\* viewport, of exactly 10% of the viewport, and above
PaletteSignificant ==
    {[Elem(tag, cls, size[1], size[2]) EXCEPT !.role = role] :
        tag \in {"DIV", "FIGURE", "UL", "MAIN"},
        cls \in ClassStrings({"container", "page", "hero"}, MaxClassTokens),
        size \in {<<50, 50>>, <<200, 100>>, <<320, 320>>, <<1280, 400>>},
        role \in {"", "navigation"}}

\* elements with a class attribute of structural and other tokens, an id too
\* short to be used, one matching the pattern table and one that does not, a
\* role of the role table and one outside it
PaletteLabel ==
    {[Elem(tag, cls, ViewportWidth, 400) EXCEPT !.role = role, !.id = id] :
        tag \in {"SECTION", "DIV", "NAV", "FIGURE"},
        cls \in ClassStrings({"hero", "card", "page"}, MaxClassTokens),
        id \in {"", "x1", "contactForm", "mainMenu"},
        role \in {"", "navigation", "tablist"}}

Heading(tag, text) == [Elem(tag, "", 600, 40) EXCEPT !.ownText = text]

\* no heading, a heading, an empty first heading followed by another one
HeadingLists ==
    {<<>>, <<Heading("H2", "Our Story")>>,
     <<Heading("H2", ""), Heading("H3", "Call to action")>>,
     <<Heading("H4", "Small print"), Heading("H3", "Call to action")>>}

PaletteType ==
    {[Elem(tag, "", ViewportWidth, 400) EXCEPT !.role = role] :
        tag \in {"HEADER", "NAV", "FOOTER", "SECTION", "DIV"},
        role \in {"", "banner", "navigation", "contentinfo"}}

\* labels passed to getSemanticType besides the one generateLabel gives
ProbeLabels == {"Call-to-action", "Hero cards", "Contact menu"}

ConfigsClassifier == {<<>>, [minArea |-> 30000]}

DomsLabel == DomsOf(PaletteLabel, HeadingLists) \cup DomsOf(PaletteType, {<<>>})

\* the elements the functions are called on: the children of <body>
Subjects(d) == Range(Children(d, 0))

CallIsSignificant ==
    \E j \in Subjects(dom) :
        /\ verdict' = [fn |-> "isSignificant", el |-> j,
                       result |-> isSignificant(dom.el[j],
                                     dom.window.innerWidth * dom.window.innerHeight,
                                     mergeConfig(config))]
        /\ UNCHANGED <<dom, config, nodeIdCounter, model, prevModel, runs, domChanges,
                       unchanged, stack, visits, pipeline, devServer, state, page>>

CallGenerateLabel ==
    \E j \in Subjects(dom) :
        /\ verdict' = [fn |-> "generateLabel", el |-> j, result |-> generateLabel(dom, j)]
        /\ UNCHANGED <<dom, config, nodeIdCounter, model, prevModel, runs, domChanges,
                       unchanged, stack, visits, pipeline, devServer, state, page>>

CallInferGridItemLabel ==
    \E j \in Subjects(dom) :
        /\ verdict' = [fn |-> "inferGridItemLabel", el |-> j,
                       result |-> inferGridItemLabel(dom, j)]
        /\ UNCHANGED <<dom, config, nodeIdCounter, model, prevModel, runs, domChanges,
                       unchanged, stack, visits, pipeline, devServer, state, page>>

CallGetSemanticType ==
    \E j \in Subjects(dom) :
        \E label \in {generateLabel(dom, j)} \cup ProbeLabels :
            /\ verdict' = [fn |-> "getSemanticType", el |-> j, label |-> label,
                           result |-> getSemanticType(dom.el[j], label)]
            /\ UNCHANGED <<dom, config, nodeIdCounter, model, prevModel, runs,
                           domChanges, unchanged, stack, visits, pipeline, devServer,
                           state, page>>

CallDetectGridItems ==
    \E j \in Subjects(dom) :
        /\ verdict' = [fn |-> "detectGridItems", el |-> j,
                       result |-> detectGridItems(dom, j)]
        /\ UNCHANGED <<dom, config, nodeIdCounter, model, prevModel, runs, domChanges,
                       unchanged, stack, visits, pipeline, devServer, state, page>>

NextCalls ==
    \/ CallIsSignificant
    \/ CallGenerateLabel
    \/ CallInferGridItemLabel
    \/ CallGetSemanticType
    \/ CallDetectGridItems

InitClassifier ==
    \/ InitWith(DomsOf(PaletteSignificant, {<<>>}), ConfigsClassifier)
    \/ InitWith(DomsLabel, {<<>>})

SpecClassifier == InitClassifier /\ [][NextCalls]_vars

MaxDetectChildren == 3

\* a 1280x400 div of each display and flex-direction
ContainerKinds ==
    {[Elem("DIV", "card-grid", ViewportWidth, 400)
          EXCEPT !.display = k[1], !.flexDirection = k[2]] :
        k \in {<<"grid", "row">>, <<"inline-grid", "column">>, <<"flex", "row">>,
               <<"inline-flex", "row-reverse">>, <<"flex", "column">>,
               <<"flex", "column-reverse">>, <<"block", "row">>}}

\* two boxes within the tolerance of each other, one of width 100 and one of
\* height 400 outside it, a decorative box, a landmark, a skipped tag, a
\* hidden box
PaletteDetect ==
    { Elem("DIV", "", 280, 200),
      Elem("DIV", "", 300, 220),
      Elem("DIV", "", 100, 200),
      Elem("DIV", "", 280, 400),
      Elem("DIV", "", 20, 20),
      Elem("ASIDE", "", 280, 200),
      Elem("UL", "", 280, 200),
      [Elem("DIV", "", 280, 200) EXCEPT !.visibility = "hidden"] }

ChildLists(palette, maxKids) == UNION {[1..k -> palette] : k \in 0..maxKids}

InitDetect ==
    InitWith(DomsOf(ContainerKinds, ChildLists(PaletteDetect, MaxDetectChildren)), {<<>>})

SpecDetect == InitDetect /\ [][NextCalls]_vars

MaxAreaChildren == 3

\* children of the row-flex container the area filters are checked on: a
\* card-sized box, boxes of 2500 and 2400 px2 within the tolerance of each
\* other, boxes of exactly 1000 and of 900 px2, a landmark
PaletteAreas ==
    { Elem("DIV", "", 280, 200),
      Elem("DIV", "", 50, 50),
      Elem("DIV", "", 50, 48),
      Elem("DIV", "", 100, 10),
      Elem("DIV", "", 30, 30),
      Elem("HEADER", "", ViewportWidth, 80) }

InitAreas ==
    InitWith(DomsOf({GridContainer}, ChildLists(PaletteAreas, MaxAreaChildren)), {<<>>})

SpecAreas == InitAreas /\ [][NextCalls]_vars

-----------------------------------------------------------------------------
(* The wireframe_page tool call, one awaited operation at a time            *)

analyzerVars ==
    <<dom, config, nodeIdCounter, model, prevModel, runs, domChanges, unchanged,
      stack, visits, verdict>>

\* index.ts:64-87 and wireframe-page.ts:50-67: the handler is invoked and
\* calls wireframePage, which calls gatherDom
InvokeTool ==
    /\ pipeline.pc = "idle"
    /\ pipeline.calls < MaxInvocations
    /\ pipeline' = [PipelineIdle EXCEPT !.pc = "launch", !.started = <<"gatherDom">>,
                                        !.calls = pipeline.calls + 1]
    /\ UNCHANGED <<analyzerVars, devServer, state, page>>

\* index.ts:286 browser = await chromium.launch(...)
LaunchBrowser ==
    /\ pipeline.pc = "launch"
    /\ \/ pipeline' = [pipeline EXCEPT !.browser = "open", !.pc = "newPage"]
       \/ \E e \in Thrown("Executable doesn't exist") :
             pipeline' = [pipeline EXCEPT !.error = <<e>>, !.pc = "gatherFinally"]
    /\ UNCHANGED <<analyzerVars, devServer, state, page>>

\* index.ts:289-304 browser.newPage, page.goto, page.evaluate
UseBrowser ==
    /\ pipeline.pc \in {"newPage", "goto", "evaluate"}
    /\ \/ pipeline' = [pipeline EXCEPT !.pc = CASE pipeline.pc = "newPage" -> "goto"
                                               [] pipeline.pc = "goto" -> "evaluate"
                                               [] OTHER -> "gatherFinally"]
       \/ \E e \in Thrown("Timeout 30000ms exceeded") :
             pipeline' = [pipeline EXCEPT !.error = <<e>>, !.pc = "gatherFinally"]
    /\ UNCHANGED <<analyzerVars, devServer, state, page>>

\* index.ts:505-514 and wireframe-page.ts:67-75: the catch block rethrows, the
\* finally block closes the browser, gatherDom settles
SettleGatherDom ==
    /\ pipeline.pc = "gatherFinally"
    /\ pipeline' = afterStep(gatherFinally(pipeline), "gatherDom", "generateModel",
                             "writeFile")
    /\ UNCHANGED <<analyzerVars, devServer, state, page>>

\* model-generator.ts:76-82 await writeFile(tempFile, prompt), before the try
WriteTempFile ==
    /\ pipeline.pc = "writeFile"
    /\ \/ pipeline' = [pipeline EXCEPT !.tempFile = "written", !.pc = "cli"]
       \/ \E e \in Thrown("ENOSPC") :
             pipeline' = afterStep([pipeline EXCEPT !.error = <<e>>], "generateModel",
                                   "renderToFile", "render")
    /\ UNCHANGED <<analyzerVars, devServer, state, page>>

\* model-generator.ts:99-173: the CLI is spawned; the promise resolves with
\* the result of the wrapper or the raw output, or rejects
RunClaudeCli ==
    /\ pipeline.pc = "cli"
    /\ \/ pipeline' = [pipeline EXCEPT !.pc = "extractJson"]
       \/ \E m \in {"Failed to spawn Claude CLI: spawn claude ENOENT",
                    "Claude CLI exited with code 1: ",
                    "Claude error: overloaded"} :
             pipeline' = [pipeline EXCEPT !.error = <<Error(m)>>, !.pc = "generateFinally"]
    /\ UNCHANGED <<analyzerVars, devServer, state, page>>

\* model-generator.ts:177-199 extractJson, parseWireframeModel, return model
ParseResult ==
    /\ pipeline.pc \in {"extractJson", "parseWireframeModel"}
    /\ \/ pipeline' = [pipeline EXCEPT !.pc = IF pipeline.pc = "extractJson"
                                              THEN "parseWireframeModel"
                                              ELSE "generateFinally"]
       \/ \E m \in IF pipeline.pc = "extractJson" THEN {"No JSON found in response"}
                   ELSE {"Invalid WireframeModel: missing nodes array",
                         "Invalid JSON: Unexpected token"} :
             pipeline' = [pipeline EXCEPT !.error = <<Error(m)>>, !.pc = "generateFinally"]
    /\ UNCHANGED <<analyzerVars, devServer, state, page>>

\* model-generator.ts:200-208 and wireframe-page.ts:75-85: the finally block
\* unlinks the file, generateModel settles
SettleGenerateModel ==
    /\ pipeline.pc = "generateFinally"
    /\ \E unlinked \in BOOLEAN :
          pipeline' = afterStep(generateFinally(pipeline, unlinked), "generateModel",
                                "renderToFile", "render")
    /\ UNCHANGED <<analyzerVars, devServer, state, page>>

\* wireframe-page.ts:85-111 await renderToFile, collectLabels, return; and
\* index.ts:97-110
RenderAndReturn ==
    /\ pipeline.pc = "render"
    /\ \/ pipeline' = [pipeline EXCEPT !.finished = Append(@, "renderToFile"),
                                       !.pc = "idle", !.response = <<toolResult>>]
       \/ \E e \in Thrown("EACCES") :
             pipeline' = failTool([pipeline EXCEPT !.error = <<e>>])
       \/ pipeline' = failTool([pipeline EXCEPT
                                   !.finished = Append(@, "renderToFile"),
                                   !.error = <<Error("nodes is not iterable")>>])
    /\ UNCHANGED <<analyzerVars, devServer, state, page>>

NextPipeline ==
    \/ InvokeTool
    \/ LaunchBrowser
    \/ UseBrowser
    \/ SettleGatherDom
    \/ WriteTempFile
    \/ RunClaudeCli
    \/ ParseResult
    \/ SettleGenerateModel
    \/ RenderAndReturn

InitPipeline == InitWith(Doms(0, PaletteMain, {Window}), {<<>>})

SpecPipeline == InitPipeline /\ [][NextPipeline]_vars

-----------------------------------------------------------------------------
(* The dev server, one callback at a time                                   *)

Ports == {DEFAULT_PORT, 3000}

notDevServer ==
    <<dom, config, nodeIdCounter, model, prevModel, runs, domChanges, unchanged,
      stack, visits, verdict, pipeline, state, page>>

\* dev-server.js:110-111 startServer(port)
StartDevServer ==
    /\ devServer.pc = "loaded"
    /\ \E port \in Ports : devServer' = startServer(devServer, port, 0)
    /\ UNCHANGED notDevServer

\* dev-server.js:102-107 the listen callback
ServerListening ==
    /\ devServer.pc = "listen"
    /\ devServer' = [devServer EXCEPT !.pc = "listening"]
    /\ UNCHANGED notDevServer

\* dev-server.js:78-100 the "error" event: EADDRINUSE comes from listen, any
\* other error from listen or from the running server
ServerError ==
    /\ devServer.pc \in {"listen", "listening"}
    /\ \E code \in IF devServer.pc = "listen" THEN {"EADDRINUSE", "EACCES"}
                   ELSE {"ECONNRESET"} :
          IF code = "EADDRINUSE" /\ devServer.retryCount = 0
          THEN \E lsofThrows \in BOOLEAN :
               \E pids \in IF lsofThrows THEN {{}} ELSE SUBSET (1..MaxPids) :
               \E killed \in SUBSET pids :
                  devServer' = onServerError(
                                  [devServer EXCEPT !.pids = pids, !.killed = killed],
                                  code, killProcessOnPort(lsofThrows, pids))
          ELSE devServer' = onServerError(devServer, code, FALSE)
    /\ UNCHANGED notDevServer

\* dev-server.js:85 the timer fires: startServer(port, retryCount + 1)
RetryTimer ==
    /\ devServer.pc = "timer"
    /\ devServer' = startServer(devServer, devServer.port, devServer.retryCount + 1)
    /\ UNCHANGED notDevServer

NextDevServer ==
    \/ StartDevServer
    \/ ServerListening
    \/ ServerError
    \/ RetryTimer

InitDevServer == InitWith(Doms(0, PaletteMain, {Window}), {<<>>})

SpecDevServer == InitDevServer /\ [][NextDevServer]_vars

-----------------------------------------------------------------------------
(* The overlay, one call or event at a time                                 *)

MaxElemsOverlay == 2

\* elements of the pages the overlay is opened on: two landmarks and a div
\* the classifier rejects
PaletteOverlay ==
    { Elem("HEADER", "", ViewportWidth, 80),
      Elem("FOOTER", "", ViewportWidth, 30),
      Elem("DIV", "", 280, 200) }

\* the labels typed into the label editor
EditedLabels == {"", "Top"}

\* main.ts:287-399 createOverlay(), with its call of analyzeDom(document)
CreateOverlay ==
    /\ page.created < MaxOverlays
    /\ \E a \in {analyzeDom(dom, <<>>, nodeIdCounter)} :
          /\ \E r \in {buildOverlay(removeOverlay(state, page), a.nodes, dom.window)} :
                state' = r.state /\ page' = r.page
          /\ model' = a.nodes
          /\ nodeIdCounter' = a.ctr
    /\ prevModel' = model
    /\ runs' = runs + 1
    /\ unchanged' = (runs >= 1 /\ domChanges = 0)
    /\ domChanges' = 0
    /\ UNCHANGED <<dom, config, stack, visits, verdict, pipeline, devServer>>

\* main.ts:404-416 removeOverlay() called by a script
RemoveOverlay ==
    /\ \E r \in {removeOverlay(state, page)} : state' = r.state /\ page' = r.page
    /\ UNCHANGED <<dom, config, nodeIdCounter, model, prevModel, runs, domChanges,
                    unchanged, stack, visits, verdict, pipeline, devServer>>

\* main.ts:421-428 toggleOverlay()
ToggleOverlay ==
    IF page.overlays > 0 THEN RemoveOverlay ELSE CreateOverlay

\* main.ts:108-116 a click on the Close button of the control bar
CloseClick ==
    /\ page.overlays > 0
    /\ RemoveOverlay

\* main.ts:389-396 an Escape keydown on the document
EscapeKey ==
    /\ \E r \in {handleEscape([state |-> state, page |-> page], page.escapeHandlers)} :
          state' = r.state /\ page' = r.page
    /\ UNCHANGED <<dom, config, nodeIdCounter, model, prevModel, runs, domChanges,
                    unchanged, stack, visits, verdict, pipeline, devServer>>

\* main.ts:78-84 a click on the Labels button of the control bar
LabelsClick ==
    /\ page.overlays > 0
    /\ state' = rerender([state EXCEPT !.showLabels = ~@])
    /\ UNCHANGED <<dom, config, nodeIdCounter, model, prevModel, runs, domChanges,
                    unchanged, stack, visits, verdict, pipeline, devServer, page>>

\* main.ts:359-374, 209-277 a click on a badge of the canvas opens the label
\* editor, and the editor saves the label typed
SaveEdit ==
    /\ page.overlays > 0
    /\ state.showLabels
    /\ \E k \in DOMAIN state.badges, newLabel \in EditedLabels :
          /\ newLabel # state.badges[k].label
          /\ state' = rerender([state EXCEPT !.labelOverrides =
                                   MapSet(@, state.badges[k].nodeId, newLabel)])
    /\ UNCHANGED <<dom, config, nodeIdCounter, model, prevModel, runs, domChanges,
                    unchanged, stack, visits, verdict, pipeline, devServer, page>>

NextOverlay ==
    \/ CreateOverlay
    \/ RemoveOverlay
    \/ ToggleOverlay
    \/ CloseClick
    \/ EscapeKey
    \/ LabelsClick
    \/ SaveEdit

InitOverlay == InitWith(Doms(MaxElemsOverlay, PaletteOverlay, {Window}), {<<>>})

SpecOverlay == InitOverlay /\ [][NextOverlay]_vars

-----------------------------------------------------------------------------
(* Observations on a returned model                                        *)

\* the last call analysed the tree that dom still holds
Analysed == runs >= 1 /\ domChanges = 0

AllNodes == flattenNodes(model)

\* source elements of the nodes of a list
Srcs(nodes) == {nodes[k].src : k \in DOMAIN nodes}

AreaOf(e) == e.rect.width * e.rect.height

Ancestors(d, i) == {a \in 1..d.n : IsAncestor(d, a, i)}

IdNumbers(nodes) ==
    {k \in 1..(MaxRuns * (MaxElems + 1) + 1) :
        \E j \in DOMAIN nodes : nodes[j].id = "wf-node-" \o ToString(k)}

RECURSIVE StripIds(_)
StripIds(nodes) ==
    [k \in DOMAIN nodes |->
        [tagName      |-> nodes[k].tagName,
         label        |-> nodes[k].label,
         bbox         |-> nodes[k].bbox,
         depth        |-> nodes[k].depth,
         isLandmark   |-> nodes[k].isLandmark,
         semanticType |-> nodes[k].semanticType,
         contentHints |-> nodes[k].contentHints,
         children     |-> StripIds(nodes[k].children)]]

StrictlyIncreasing(seq) == \A k \in 1..(Len(seq) - 1) : seq[k] < seq[k + 1]

SrcSeq(nodes) == [k \in DOMAIN nodes |-> nodes[k].src]

-----------------------------------------------------------------------------
(* Claims                                                                  *)

\* C1 (landmark preservation), as claimed: after analyzeDom, every visible
\* landmark element with area >= minArea is the source of a node of the
\* model.  Read in the claim's favour: the element's ancestors are visible
\* too, none of them is a grid or flex container, and there are at most
\* maxDepth of them, so that only the insignificant-container rule can drop it.
C1_LandmarkPreserved ==
    Analysed =>
        \A i \in 1..dom.n :
            ( /\ isLandmark(dom.el[i])
              /\ isElementVisible(dom.el[i])
              /\ AreaOf(dom.el[i]) >= mergeConfig(config).minArea
              /\ Cardinality(Ancestors(dom, i)) <= mergeConfig(config).maxDepth
              /\ \A a \in Ancestors(dom, i) :
                    /\ isElementVisible(dom.el[a])
                    /\ ~isGridOrFlexContainer(dom.el[a]) )
            => i \in Srcs(AllNodes)

\* C2 (depth monotonicity), as claimed: on every parent -> child edge of the
\* returned node tree, child.depth = parent.depth + 1.
C2_DepthMonotonic ==
    Analysed =>
        \A k \in DOMAIN AllNodes :
            \A c \in DOMAIN AllNodes[k].children :
                AllNodes[k].children[c].depth = AllNodes[k].depth + 1

\* C6 (unique ids): no two nodes of a returned model, roots and descendants
\* alike, carry the same id.
C6_UniqueIds ==
    runs >= 1 =>
        \A j, k \in DOMAIN AllNodes : AllNodes[j].id = AllNodes[k].id => j = k

C6_Witness == runs >= 1 /\ Len(AllNodes) >= 3

\* C7 (counter reset): whatever the earlier calls left in nodeIdCounter, a
\* call numbers its nodes from wf-node-1 again: the ids of the model are
\* among wf-node-1 .. wf-node-K with K, the counter after the call, at most
\* the number of elements of the tree; and a second call on the unchanged
\* tree returns the same ids at the same nodes.
C7_CounterReset ==
    /\ Analysed =>
          /\ nodeIdCounter <= dom.n
          /\ Cardinality(IdNumbers(AllNodes)) = Len(AllNodes)
          /\ IdNumbers(AllNodes) \subseteq 1..nodeIdCounter
    /\ unchanged => model = prevModel

C7_Witness ==
    /\ runs >= 2
    /\ Len(flattenNodes(prevModel)) >= 2
    /\ Len(AllNodes) >= 1

C3_DocumentOrder ==
    Analysed =>
        /\ StrictlyIncreasing(SrcSeq(model))
        /\ \A k \in DOMAIN AllNodes : StrictlyIncreasing(SrcSeq(AllNodes[k].children))

\* The case of C4: the row-flex container is element 1, its non-landmark
\* visible children are 4 boxes within 5% of 280x200 and nOut boxes of width 100.
About280x200(e) ==
    /\ 100 * Abs(e.rect.width - 280) <= 5 * 280
    /\ 100 * Abs(e.rect.height - 200) <= 5 * 200

GridCandidates == SelectSeq(getVisibleChildren(dom, 1), LAMBDA j : ~isLandmark(dom.el[j]))

SimilarSiblings == SelectSeq(GridCandidates, LAMBDA j : About280x200(dom.el[j]))

OutlierSiblings == SelectSeq(GridCandidates, LAMBDA j : dom.el[j].rect.width = 100)

C4Case(nOut) ==
    /\ Analysed
    /\ dom.n >= 1
    /\ isGridOrFlexContainer(dom.el[1])
    /\ Len(SimilarSiblings) = 4
    /\ Len(OutlierSiblings) = nOut
    /\ Len(GridCandidates) = 4 + nOut

\* the node of the container and its child nodes that come from non-landmarks
ContainerNodes == SelectSeq(model, LAMBDA nd : nd.src = 1)

SiblingNodes == SelectSeq(ContainerNodes[1].children, LAMBDA nd : ~nd.isLandmark)

FourCards ==
    /\ Len(ContainerNodes) = 1
    /\ SrcSeq(SiblingNodes) = SimilarSiblings
    /\ \A k \in DOMAIN SiblingNodes :
          /\ SiblingNodes[k].semanticType = "card"
          /\ SiblingNodes[k].depth = ContainerNodes[1].depth + 1
          /\ SiblingNodes[k].children = <<>>

\* C4 (grid with an outlier), as claimed: with the 4 similar siblings, and
\* with a 5th sibling of width 100 added, the container has exactly the 4
\* similar siblings as card nodes at depth + 1 in document order.
C4_OutlierExcluded == (C4Case(0) \/ C4Case(1)) => FourCards

\* C4 as amended: the 4 similar siblings alone give the 4 card nodes; a 5th
\* sibling of width 100 is left out only when its area is at most 1000 px2;
\* when its area is above 1000 px2 it takes part in the similarity test,
\* fails it, and the detector returns none for the whole container: no
\* sibling is built as a grid item, and the siblings that become nodes are
\* those significant in their own right.
C4_OutlierFailsDetection ==
    /\ C4Case(0) => FourCards
    /\ C4Case(1) =>
          IF AreaOf(dom.el[OutlierSiblings[1]]) > 1000
          THEN /\ Len(ContainerNodes) = 1
               /\ SrcSeq(SiblingNodes) =
                     SelectSeq(GridCandidates,
                               LAMBDA j : isSignificant(dom.el[j],
                                              ViewportWidth * ViewportHeight,
                                              mergeConfig(config)))
          ELSE FourCards

C4_Witness == C4Case(1) /\ AreaOf(dom.el[OutlierSiblings[1]]) > 1000

\* The case of C5: p is a child of <body>, c its only child and a leaf, both
\* visible and significant (so that p has exactly one child node), exactly
\* one of the two is a landmark, and c covers at least 85% of p's area.
C5Pairs ==
    {pc \in (1..dom.n) \X (1..dom.n) :
        LET p == pc[1]
            c == pc[2]
            viewportArea == dom.window.innerWidth * dom.window.innerHeight
        IN  /\ Analysed
            /\ dom.parent[p] = 0
            /\ Children(dom, p) = <<c>>
            /\ Children(dom, c) = <<>>
            /\ isElementVisible(dom.el[p]) /\ isElementVisible(dom.el[c])
            /\ isSignificant(dom.el[p], viewportArea, mergeConfig(config))
            /\ isSignificant(dom.el[c], viewportArea, mergeConfig(config))
            /\ detectGridItems(dom, p) = <<>>
            /\ isLandmark(dom.el[p]) # isLandmark(dom.el[c])
            /\ AreaOf(dom.el[c]) * 100 >= AreaOf(dom.el[p]) * 85}

\* p is a root node with the single child c
Kept(p, c) ==
    \E k \in DOMAIN model : model[k].src = p /\ SrcSeq(model[k].children) = <<c>>

\* c is a root node in the place of p, which is no node
Replaced(p, c) ==
    /\ \E k \in DOMAIN model : model[k].src = c
    /\ p \notin Srcs(AllNodes)

LowInformation == {"Block", "Section"}

HintNodes == SelectSeq(model, LAMBDA nd : nd.src = 1)

HintsOfType(t) == SelectSeq(HintNodes[1].contentHints, LAMBDA h : h.type = t)

Take(seq, n) == SubSeq(seq, 1, Min(n, Len(seq)))

BoxOf(j) == getAbsoluteBoundingBox(dom.el[j], dom.window)

Boxes(js) == [k \in DOMAIN js |-> BoxOf(js[k])]

HintBoxes(hs) == [k \in DOMAIN hs |-> hs[k].bbox]

MeetsMin(j, t) ==
    /\ dom.el[j].rect.width >= CONTENT_MIN_SIZES[t].width
    /\ dom.el[j].rect.height >= CONTENT_MIN_SIZES[t].height

IsImageTag(j) == tagNameOf(dom.el[j]) \in {"img", "picture", "figure"}

IsLargeSvg(j) == tagNameOf(dom.el[j]) = "svg" /\ AreaOf(dom.el[j]) > 400

IsSmallSvg(j) == tagNameOf(dom.el[j]) = "svg" /\ AreaOf(dom.el[j]) <= 400

IsTextTag(j) == tagNameOf(dom.el[j]) \in {"p", "h1", "h2", "h3", "h4", "h5", "h6"}

\* the candidates of a type, whatever their size and visibility
IsCandidate(j, t) ==
    CASE t = "image"  -> IsImageTag(j) \/ IsLargeSvg(j)
      [] t = "button" -> isButtonElement(dom.el[j])
      [] t = "icon"   -> isIconElement(dom.el[j])

Qualifying(t) ==
    SelectSeq(Descendants(dom, 1),
              LAMBDA j : IsCandidate(j, t) /\ isElementVisible(dom.el[j]) /\ MeetsMin(j, t))

C9Case == Analysed /\ dom.n >= 1 /\ Len(HintNodes) = 1

HintTypes == {"image", "button", "text", "icon"}

\* C9 (content-hint capping), as claimed: at most 5 image, 3 button, 1 text
\* and 6 icon hints, and when more candidates of a type qualify (visible, at
\* least the minimum size) than its cap, the emitted hints are the first
\* cap-many qualifying descendants in document order.  The text hint, one box
\* for all paragraphs, has no candidates to order and is left to the cap.
C9_FirstQualifyingInDocumentOrder ==
    C9Case =>
        /\ \A t \in HintTypes : Len(HintsOfType(t)) <= CONTENT_MAX_COUNTS[t]
        /\ \A t \in {"image", "button", "icon"} :
              Len(Qualifying(t)) > CONTENT_MAX_COUNTS[t] =>
                  HintBoxes(HintsOfType(t))
                      = Take(Boxes(Qualifying(t)), CONTENT_MAX_COUNTS[t])

\* the scan order of the source: per type, the elements in the order in which
\* they are offered to addHint, restricted to those of at least the minimum size
ScannedImages ==
    SelectSeq(Descendants(dom, 1),
              LAMBDA j : IsImageTag(j) /\ isElementVisible(dom.el[j]) /\ MeetsMin(j, "image"))
      \o SelectSeq(Descendants(dom, 1),
              LAMBDA j : /\ IsLargeSvg(j)
                         /\ dom.el[j].rect.width # 0 /\ dom.el[j].rect.height # 0
                         /\ MeetsMin(j, "image"))

ScannedIcons ==
    SelectSeq(Descendants(dom, 1), LAMBDA j : IsSmallSvg(j) /\ MeetsMin(j, "icon"))
      \o SelectSeq(Descendants(dom, 1),
              LAMBDA j : /\ tagNameOf(dom.el[j]) \in {"i", "span"}
                         /\ isIconElement(dom.el[j])
                         /\ isElementVisible(dom.el[j])
                         /\ MeetsMin(j, "icon"))

TextParts ==
    SelectSeq(Descendants(dom, 1),
              LAMBDA j : /\ IsTextTag(j)
                         /\ isElementVisible(dom.el[j])
                         /\ dom.el[j].rect.width >= 20
                         /\ dom.el[j].rect.height >= 10)

\* the smallest box enclosing the boxes of js (js not empty)
Enclosing(js) ==
    LET S == Range(Boxes(js))
        x0 == CHOOSE v \in {b.x : b \in S} : \A b \in S : v <= b.x
        y0 == CHOOSE v \in {b.y : b \in S} : \A b \in S : v <= b.y
        x1 == CHOOSE v \in {b.x + b.width : b \in S} : \A b \in S : v >= b.x + b.width
        y1 == CHOOSE v \in {b.y + b.height : b \in S} : \A b \in S : v >= b.y + b.height
    IN  [x |-> x0, y |-> y0, width |-> x1 - x0, height |-> y1 - y0]

\* C9 as amended: at most 5 image, 3 button, 1 text and 6 icon hints, and
\* candidates below the minimum size do not use up the cap.  Buttons: the
\* first 3 qualifying descendants in document order.  Images: the first 5 of
\* the visible img/picture/figure descendants in document order followed by
\* the svg descendants of area > 400 (non-zero box, visibility not consulted)
\* in document order.  Icons: the first 6 of the svg descendants of area <=
\* 400 followed by the visible icon-font descendants.  Text: one hint, the
\* box enclosing all visible p/h1-h6 descendants of at least 20x10, emitted
\* when that box is at least 50x10.
C9_CappedInScanOrder ==
    C9Case =>
        /\ \A t \in HintTypes : Len(HintsOfType(t)) <= CONTENT_MAX_COUNTS[t]
        /\ HintBoxes(HintsOfType("button"))
              = Take(Boxes(Qualifying("button")), CONTENT_MAX_COUNTS.button)
        /\ HintBoxes(HintsOfType("image"))
              = Take(Boxes(ScannedImages), CONTENT_MAX_COUNTS.image)
        /\ HintBoxes(HintsOfType("icon"))
              = Take(Boxes(ScannedIcons), CONTENT_MAX_COUNTS.icon)
        /\ HintBoxes(HintsOfType("text"))
              = IF TextParts # <<>>
                   /\ Enclosing(TextParts).width >= CONTENT_MIN_SIZES.text.width
                   /\ Enclosing(TextParts).height >= CONTENT_MIN_SIZES.text.height
                THEN <<Enclosing(TextParts)>>
                ELSE <<>>

\* 7 qualifying image descendants, one below the minimum size among them or
\* before them, and 5 hints emitted
C9_Witness ==
    /\ C9Case
    /\ Len(ScannedImages) >= 6
    /\ Len(HintsOfType("image")) = CONTENT_MAX_COUNTS.image
    /\ \E j \in 2..dom.n : IsImageTag(j) /\ ~MeetsMin(j, "image") /\ j < ScannedImages[5]

\* C10 (end-to-end scenario): the page header#header > nav[role=navigation] >
\* a.btn "Contact" yields one root node, the header, labelled 'Header', with
\* one child, the nav, labelled 'Navigation', without children, whose only
\* content hint is the button 'Contact' at (1100,20,120,40); the header is
\* not collapsed into the nav.
C10_EndToEnd ==
    Analysed /\ dom = EndToEndDom =>
        /\ Len(model) = 1
        /\ model[1].tagName = "header"
        /\ model[1].label = "Header"
        /\ model[1].semanticType = "header"
        /\ model[1].isLandmark
        /\ Len(model[1].children) = 1
        /\ LET nav == model[1].children[1] IN
              /\ nav.tagName = "nav"
              /\ nav.label = "Navigation"
              /\ nav.semanticType = "navigation"
              /\ nav.isLandmark
              /\ nav.children = <<>>
              /\ nav.contentHints
                    = << [type  |-> "button",
                          bbox  |-> [x |-> 1100, y |-> 20, width |-> 120, height |-> 40],
                          label |-> "Contact"] >>

\* the scenario's page has been analysed and the header node is there with
\* the nav node below it
C10_Witness ==
    /\ Analysed
    /\ dom = EndToEndDom
    /\ \E h \in Range(model) : h.src = 1 /\ \E c \in Range(h.children) : c.src = 2

\* the work left in a call in progress: two units per element not yet
\* visited and one per activation
WorkLeft == 2 * Cardinality({j \in DOMAIN visits : visits[j] = 0}) + Len(stack)

\* C11 (totality and termination): during a call of analyzeDom every step
\* takes one of its activations further and strictly decreases the work left,
\* which is at most 2n + 1 for a tree of n elements, so the call returns
\* after a bounded number of steps whatever the tree and the config;
\* buildNodeTree is called at most once on an element; and what the call
\* returns is the node list analyzeDom is defined to return for the tree.
C11_Terminates ==
    [][/\ \A j \in DOMAIN visits' : visits'[j] <= 1
       /\ stack # <<>> =>
             /\ WorkLeft' < WorkLeft
             /\ WorkLeft' >= 0
             /\ stack' = <<>> =>
                   /\ model' = analyzeDom(dom, config, 0).nodes
                   /\ nodeIdCounter' = analyzeDom(dom, config, 0).ctr
       /\ stack = <<>> /\ stack' # <<>> => WorkLeft' <= 2 * dom.n + 1]_vars

\* a call has returned on a chain of three insignificant wrappers, deeper
\* than maxDepth = 1 would allow if they consumed a level; each was visited
C11_Witness ==
    /\ Analysed
    /\ stack = <<>>
    /\ config = [maxDepth |-> 1]
    /\ dom.n = 3
    /\ \A j \in 1..dom.n :
          /\ dom.parent[j] = j - 1
          /\ ~isSignificant(dom.el[j], ViewportWidth * ViewportHeight, mergeConfig(config))
          /\ visits[j] = 1

\* the page with every host read succeeding
Healthy(d) == [d EXCEPT !.el = [j \in DOMAIN d.el |-> [d.el[j] EXCEPT !.rectThrows = FALSE]]]

\* the nodes, those of the elements whose hint extraction fails without hints
RECURSIVE WithoutFailedHints(_)
WithoutFailedHints(nodes) ==
    [k \in DOMAIN nodes |->
        [nodes[k] EXCEPT
            !.contentHints = IF detectContentHintsThrows(dom, nodes[k].src) THEN <<>> ELSE @,
            !.children = WithoutFailedHints(@)]]

\* C12 (content-hint failure containment): when the hint extraction of some
\* elements fails, the model is the one of the same page without failures
\* (same nodes, ids, labels, depths, children, semantic types), except that
\* the nodes of those elements have no content hints.
C12_FailureContained ==
    Analysed => model = WithoutFailedHints(analyzeDom(Healthy(dom), config, 0).nodes)

\* a node whose extraction failed and lost hints that way, next to a node
\* that kept its hints
C12_Witness ==
    /\ Analysed
    /\ \E nd \in Range(AllNodes) :
          /\ detectContentHintsThrows(dom, nd.src)
          /\ nd.contentHints = <<>>
          /\ detectContentHintsUnsafe(Healthy(dom), nd.src) # <<>>
    /\ \E nd \in Range(AllNodes) :
          /\ ~detectContentHintsThrows(dom, nd.src)
          /\ nd.contentHints # <<>>

\* C13 (root level is depth 0): every node of the list analyzeDom returns
\* has depth 0, also a root that took the place of a collapsed wrapper or of
\* an insignificant container.
C13_RootDepthZero ==
    Analysed => \A k \in DOMAIN model : model[k].depth = 0

\* C14 (significance rule precedence): isSignificant rejects an element whose
\* tag is in the skip set, whatever its role, class and area, and rejects an
\* element of area below config.minArea, landmark or structural class or not;
\* an element passing both tests is accepted if it is a landmark or its class
\* matches a structural pattern.
C14_SignificancePrecedence ==
    verdict.fn = "isSignificant" =>
        LET e == dom.el[verdict.el]
            area == e.rect.width * e.rect.height
            minArea == IF "minArea" \in DOMAIN config THEN config.minArea
                       ELSE DEFAULT_MIN_AREA
            skipped == tagNameOf(e) \in SKIP_TAGS
        IN  /\ skipped => verdict.result = FALSE
            /\ area < minArea => verdict.result = FALSE
            /\ ~skipped /\ area >= minArea /\ (isLandmark(e) \/ getClassLabel(e) # "")
                  => verdict.result = TRUE

\* a skipped tag with a landmark role, a structural class and 40% of the
\* viewport is rejected
C14_Witness ==
    /\ verdict.fn = "isSignificant"
    /\ verdict.result = FALSE
    /\ LET e == dom.el[verdict.el] IN
          /\ tagNameOf(e) \in SKIP_TAGS
          /\ e.role \in LANDMARK_ROLES
          /\ getClassLabel(e) # ""
          /\ e.rect.width * e.rect.height * 10 > ViewportWidth * ViewportHeight

AllTokensGeneric(className) ==
    \A t \in Range(splitWhitespace(className, "")) : GenericPatternTest(t)

WithThreshold(cfg, t) ==
    [f \in DOMAIN cfg \cup {"viewportAreaThreshold"} |->
        IF f = "viewportAreaThreshold" THEN t ELSE cfg[f]]

EarliestEntryLabel(str) ==
    LET ks == {k \in DOMAIN STRUCTURAL_CLASS_LABELS :
                  StructuralPatternTest(k, toLowerCase(str))}
    IN  IF str = "" \/ ks = {} THEN ""
        ELSE STRUCTURAL_CLASS_LABELS[CHOOSE k \in ks : \A k2 \in ks : k <= k2]

\* the labels the steps of the cascade yield for element i, in their fixed
\* order, "" for a step that yields none
LabelSteps(d, i) ==
    LET e == d.el[i]
        tag == tagNameOf(e)
    IN  << EarliestEntryLabel(e.className),
           IF Len(e.id) > 2 /\ Len(e.id) < 30
           THEN (IF EarliestEntryLabel(e.id) # "" THEN EarliestEntryLabel(e.id)
                 ELSE capitalize(cleanIdFrom(e.id, 1)))
           ELSE "",
           IF e.role \in DOMAIN roleLabels THEN roleLabels[e.role] ELSE "",
           IF tag \in {"section", "article", "div"}
           THEN inferLabelFromContent(d, i) ELSE "",
           IF tag \in DOMAIN tagLabels THEN tagLabels[tag] ELSE "",
           IF tag = "div" THEN "Block" ELSE capitalize(tag) >>

FirstYield(steps) ==
    steps[CHOOSE k \in DOMAIN steps :
              steps[k] # "" /\ \A k2 \in 1..(k - 1) : steps[k2] = ""]

SemanticTypes == {"header", "navigation", "hero", "content", "card", "cta", "footer"}

\* /call.?to.?action/ : at most one character, not a line break, after call
\* and after to
MatchesCallToAction(l) ==
    \E g1 \in {0, 1}, g2 \in {0, 1} :
        \E i \in 1..Len(l) :
            /\ i + 11 + g1 + g2 <= Len(l)
            /\ MatchAt(l, i, "call")
            /\ (g1 = 1 => CharAt(l, i + 4) \notin {"\n", "\r"})
            /\ MatchAt(l, i + 4 + g1, "to")
            /\ (g2 = 1 => CharAt(l, i + 6 + g1) \notin {"\n", "\r"})
            /\ MatchAt(l, i + 6 + g1 + g2, "action")

\* the type by the priority list, callToAction being the test of the
\* lower-cased label that stands for the call-to-action alternative
TypeByPriority(e, l, callToAction) ==
    LET tag == tagNameOf(e) IN
    IF tag = "header" \/ e.role = "banner" THEN "header"
    ELSE IF tag = "nav" \/ e.role = "navigation" THEN "navigation"
    ELSE IF tag = "footer" \/ e.role = "contentinfo" THEN "footer"
    ELSE IF \E w \in {"hero", "banner"} : Contains(l, w) THEN "hero"
    ELSE IF \E w \in {"card", "feature", "service", "testimonial", "team", "benefit"} :
               Contains(l, w)
         THEN "card"
    ELSE IF callToAction \/ \E w \in {"cta", "contact", "newsletter"} : Contains(l, w)
         THEN "cta"
    ELSE IF \E w \in {"nav", "menu"} : Contains(l, w) THEN "navigation"
    ELSE "content"

\* C18 as stated (semantic type priority): tag or role first, then the label
\* tested against hero|banner, card|..., cta|call-to-action|contact|newsletter,
\* nav|menu in this order, else content; always one of the seven types.
C18_TypeAsStated ==
    verdict.fn = "getSemanticType" =>
        /\ verdict.result \in SemanticTypes
        /\ verdict.result =
              TypeByPriority(dom.el[verdict.el], toLowerCase(verdict.label),
                             Contains(toLowerCase(verdict.label), "call-to-action"))

\* C18 amended (semantic type priority): as stated, the call-to-action
\* alternative being call, to and action with at most one arbitrary character
\* between them ("call to action", "calltoaction", "call-to-action").
C18_SemanticTypePriority ==
    verdict.fn = "getSemanticType" =>
        /\ verdict.result \in SemanticTypes
        /\ verdict.result =
              TypeByPriority(dom.el[verdict.el], toLowerCase(verdict.label),
                             MatchesCallToAction(toLowerCase(verdict.label)))

\* a section labelled by its heading "Call to action" is a cta
C18_Witness ==
    /\ verdict.fn = "getSemanticType"
    /\ verdict.label = "Call to action"
    /\ verdict.label = generateLabel(dom, verdict.el)
    /\ tagNameOf(dom.el[verdict.el]) = "section"
    /\ verdict.result = "cta"

\* the first Len(items) children of the node are the nodes of the grid items,
\* in their order, each a childless non-landmark card one level below
GridItemChildren(node, items) ==
    /\ Len(items) >= 2
    /\ Len(node.children) >= Len(items)
    /\ \A k \in DOMAIN items :
          /\ node.children[k].src = items[k]
          /\ node.children[k].semanticType = "card"
          /\ node.children[k].isLandmark = FALSE
          /\ node.children[k].children = <<>>
          /\ node.children[k].depth = node.depth + 1

\* C19 (grid-item node shape): buildNodeTree called at any depth up to
\* maxDepth on a visible significant element for which grid detection
\* succeeds returns the node of that element (it is not collapsed), holding
\* for every detected grid item a childless non-landmark card node at depth
\* + 1, also beyond maxDepth and for items the classifier rejects; the same
\* holds of every such container node of the model returned.
C19_GridItemShape ==
    Analysed =>
        LET cfg == mergeConfig(config)
            viewportArea == dom.window.innerWidth * dom.window.innerHeight
        IN  /\ \A j \in 1..dom.n :
                  /\ isElementVisible(dom.el[j])
                  /\ isSignificant(dom.el[j], viewportArea, cfg)
                  /\ detectGridItems(dom, j) # <<>>
                  => \A depth \in 0..cfg.maxDepth :
                        LET r == buildNodeTree(dom, j, depth, viewportArea, cfg, FALSE, 0)
                        IN  /\ Len(r.nodes) = 1
                            /\ r.nodes[1].src = j
                            /\ r.nodes[1].depth = depth
                            /\ GridItemChildren(r.nodes[1], detectGridItems(dom, j))
            /\ \A nd \in Range(AllNodes) :
                  /\ detectGridItems(dom, nd.src) # <<>>
                  /\ ~(/\ dom.parent[nd.src] # 0
                       /\ isSignificant(dom.el[dom.parent[nd.src]], viewportArea, cfg)
                       /\ nd.src \in Range(detectGridItems(dom, dom.parent[nd.src])))
                  => GridItemChildren(nd, detectGridItems(dom, nd.src))

\* under maxDepth 0 a root container has card children at depth 1, one of
\* them an element isSignificant rejects
C19_Witness ==
    /\ Analysed
    /\ config = [maxDepth |-> 0]
    /\ \E k \in DOMAIN model :
          /\ detectGridItems(dom, model[k].src) # <<>>
          /\ model[k].depth = 0
          /\ Len(model[k].children) >= 2
          /\ \E c \in DOMAIN model[k].children :
                /\ model[k].children[c].semanticType = "card"
                /\ model[k].children[c].depth = 1
                /\ ~isSignificant(dom.el[model[k].children[c].src],
                                  ViewportWidth * ViewportHeight, mergeConfig(config))

\* the children of i that can be grid items: visible, HTML, not a skipped tag,
\* not a landmark
ItemCandidates(d, i) ==
    SelectSeq(Children(d, i),
              LAMBDA j : /\ isHTMLElement(d.el[j])
                         /\ isElementVisible(d.el[j])
                         /\ tagNameOf(d.el[j]) \notin SKIP_TAGS
                         /\ tagNameOf(d.el[j]) \notin LANDMARK_TAGS
                         /\ d.el[j].role \notin LANDMARK_ROLES)

\* element j deviates by more than 30% from the mean width or from the mean
\* height of the elements js
Deviates(d, j, js) ==
    \/ 10 * Abs(Len(js) * d.el[j].rect.width - SumOver(d, js, "width"))
          > 3 * SumOver(d, js, "width")
    \/ 10 * Abs(Len(js) * d.el[j].rect.height - SumOver(d, js, "height"))
          > 3 * SumOver(d, js, "height")

\* C20 (grid tolerance is all-or-nothing): detectGridItems returns none unless
\* the element is a grid, an inline-grid or a row-direction flex container
\* with at least 2 visible, non-skipped, non-landmark children, and returns
\* none when one of these children of more than 1000 px2 deviates by more
\* than 30% from the mean width or height of those children.
C20_AllOrNothing ==
    verdict.fn = "detectGridItems" =>
        LET e == dom.el[verdict.el]
            candidates == ItemCandidates(dom, verdict.el)
            sized == SelectSeq(candidates, LAMBDA j : AreaOf(dom.el[j]) > 1000)
        IN  /\ verdict.result # <<>> =>
                  /\ \/ e.display \in {"grid", "inline-grid"}
                     \/ /\ e.display \in {"flex", "inline-flex"}
                        /\ e.flexDirection \in {"row", "row-reverse"}
                  /\ Len(candidates) >= 2
            /\ e.display \in {"flex", "inline-flex"}
                  /\ e.flexDirection \in {"column", "column-reverse"}
                  => verdict.result = <<>>
            /\ (\E k \in DOMAIN sized : Deviates(dom, sized[k], sized))
                  => verdict.result = <<>>

\* a row-flex container with two similar children and one of width 100: the
\* two would pass on their own, the detection returns none
C20_Witness ==
    /\ verdict.fn = "detectGridItems"
    /\ verdict.result = <<>>
    /\ isGridOrFlexContainer(dom.el[verdict.el])
    /\ LET sized == SelectSeq(ItemCandidates(dom, verdict.el),
                              LAMBDA j : AreaOf(dom.el[j]) > 1000)
       IN  /\ Len(sized) = 3
           /\ Cardinality({k \in DOMAIN sized : Deviates(dom, sized[k], sized)}) = 1
           /\ Len(similarlySizedChildren(dom, sized)) = 2

\* what detectGridItems gives on element i when the similarity test takes the
\* candidates of at least minTestArea px2: the candidates of 2500 px2 and
\* more in document order if at least 2 candidates are tested, all tested
\* ones are within the tolerance and at least 2 candidates have 2500 px2
ItemsExpected(d, i, minTestArea) ==
    LET candidates == ItemCandidates(d, i)
        tested == SelectSeq(candidates, LAMBDA j : AreaOf(d.el[j]) >= minTestArea)
        valid == SelectSeq(candidates, LAMBDA j : AreaOf(d.el[j]) >= GRID_ITEM_MIN_AREA)
    IN  IF /\ isGridOrFlexContainer(d.el[i])
           /\ Len(tested) >= 2
           /\ \A k \in DOMAIN tested : ~Deviates(d, tested[k], tested)
           /\ Len(valid) >= 2
        THEN valid ELSE <<>>

\* the list holds direct children of element i only, in document order
ChildrenInOrder(d, i, items) ==
    /\ \A k \in DOMAIN items : d.parent[items[k]] = i
    /\ \A k \in 1..(Len(items) - 1) : items[k] < items[k + 1]

\* C21 as stated (grid detector area filters): candidates below 1000 px2 are
\* left out of the similarity test, one of exactly 1000 px2 takes part; on
\* success the result is the non-landmark candidates of at least 2500 px2, at
\* least 2, direct children, in document order.
C21_AreaFiltersAsStated ==
    verdict.fn = "detectGridItems" =>
        /\ verdict.result = ItemsExpected(dom, verdict.el, 1000)
        /\ verdict.result # <<>> => Len(verdict.result) >= 2
        /\ ChildrenInOrder(dom, verdict.el, verdict.result)

\* C21 amended (grid detector area filters): candidates of at most 1000 px2
\* are left out of the similarity test (one of exactly 1000 px2 does not take
\* part); the rest as stated.
C21_AreaFilters ==
    verdict.fn = "detectGridItems" =>
        /\ verdict.result = ItemsExpected(dom, verdict.el, 1001)
        /\ verdict.result # <<>> => Len(verdict.result) >= 2
        /\ ChildrenInOrder(dom, verdict.el, verdict.result)

\* two card-sized boxes and one of exactly 1000 px2: detection succeeds with
\* the two
C21_Witness ==
    /\ verdict.fn = "detectGridItems"
    /\ Len(verdict.result) = 2
    /\ \E j \in 1..dom.n :
          /\ dom.parent[j] = verdict.el
          /\ AreaOf(dom.el[j]) = 1000
          /\ Deviates(dom, j, ItemCandidates(dom, verdict.el))

\* the HTML children of element i, which the normal child loop visits
HtmlChildren(d, i) == SelectSeq(Children(d, i), LAMBDA j : isHTMLElement(d.el[j]))

\* the child nodes of element i when its children are built at depth
ChildNodesAt(d, i, depth, cfg) ==
    buildEach(d, HtmlChildren(d, i), depth, d.window.innerWidth * d.window.innerHeight,
              cfg, FALSE, [nodes |-> <<>>, ctr |-> 0]).nodes

SignificantAncestors(d, j, cfg) ==
    Cardinality({a \in Ancestors(d, j) :
                    isSignificant(d.el[a], d.window.innerWidth * d.window.innerHeight, cfg)})

\* C23 (insignificant containers do not consume a depth level): every
\* buildNodeTree activation runs at the depth of its caller if the caller is
\* insignificant and one level deeper if it is significant, the children of
\* <body> at 0; so its depth is the number of its significant ancestors, only
\* that number is compared with maxDepth, and the nodes returned carry it.
C23_DepthLevels ==
    /\ \A k \in 2..Len(stack) :
          /\ stack[k].depth =
                IF k = 2 THEN 0
                ELSE IF stack[k - 1].significant THEN stack[k - 1].depth + 1
                ELSE stack[k - 1].depth
          /\ stack[k].depth = SignificantAncestors(dom, stack[k].i, mergeConfig(config))
          /\ stack[k].depth <= mergeConfig(config).maxDepth \/ stack[k].isGridItem
    /\ stack # <<>> =>
          \A c \in Range(stack[Len(stack)].pending) :
              c.depth = SignificantAncestors(dom, c.i, mergeConfig(config))
    /\ Analysed /\ stack = <<>> =>
          \A nd \in Range(AllNodes) :
              nd.depth = SignificantAncestors(dom, nd.src, mergeConfig(config))

\* under maxDepth 1 a landmark inside two nested insignificant divs is built
\* and is a root node of depth 0
C23_Witness ==
    /\ Analysed
    /\ stack = <<>>
    /\ config = [maxDepth |-> 1]
    /\ dom.n = 3
    /\ dom.parent = <<0, 1, 2>>
    /\ SignificantAncestors(dom, 3, mergeConfig(config)) = 0
    /\ Len(model) = 1
    /\ model[1].src = 3
    /\ model[1].depth = 0

\* conditions (a) and (b) of the wrapper collapse of element i onto child
PrefersChild(d, i, child) ==
    \/ ~isLandmark(d.el[i]) /\ child.isLandmark
    \/ /\ generateLabel(d, i) \in {"Block", "Section"}
       /\ child.label \notin {"Block", "Section"}

\* buildNodeTree on every visible significant element with exactly one child
\* node and no grid result returns that child if covers holds of the two
\* areas and (a) or (b) does, and else its own node with the child beneath
CollapsesExactlyWhen(covers(_, _)) ==
    LET cfg == mergeConfig(config)
        viewportArea == dom.window.innerWidth * dom.window.innerHeight
    IN  \A j \in 1..dom.n : \A depth \in 0..cfg.maxDepth :
            LET childNodes == ChildNodesAt(dom, j, depth + 1, cfg)
                r == buildNodeTree(dom, j, depth, viewportArea, cfg, FALSE, 0)
            IN  /\ isElementVisible(dom.el[j])
                /\ isSignificant(dom.el[j], viewportArea, cfg)
                /\ detectGridItems(dom, j) = <<>>
                /\ Len(childNodes) = 1
                => IF /\ covers(childNodes[1].bbox.width * childNodes[1].bbox.height,
                                AreaOf(dom.el[j]))
                      /\ PrefersChild(dom, j, childNodes[1])
                   THEN r.nodes = childNodes
                   ELSE /\ Len(r.nodes) = 1
                        /\ r.nodes[1].src = j
                        /\ r.nodes[1].children = childNodes

AtLeast85Percent(childArea, area) == 100 * childArea >= 85 * area

Above85Percent(childArea, area) == 100 * childArea > 85 * area

-----------------------------------------------------------------------------
(* The wireframe_page tool                                                   *)

PipelineSteps == <<"gatherDom", "generateModel", "renderToFile">>

IsPrefixOf(a, b) == Len(a) <= Len(b) /\ SubSeq(b, 1, Len(a)) = a

FailurePrefix == "Failed to generate wireframe: "

\* C25: the steps of the wireframe_page pipeline start in the order gatherDom,
\* generateModel, renderToFile, each only after the one before it resolved;
\* a step that fails makes the handler return (never throw) a response with
\* isError true and the text "Failed to generate wireframe: <message>", no
\* later step being started; a success response comes only after renderToFile
\* resolved.
C25_StepOrder ==
    /\ [](/\ IsPrefixOf(pipeline.started, PipelineSteps)
          /\ IsPrefixOf(pipeline.finished, pipeline.started)
          /\ Len(pipeline.started) <= Len(pipeline.finished) + 1
          /\ \A r \in Range(pipeline.response) :
                /\ ~r.thrown
                /\ pipeline.pc = "idle"
                /\ r.isError => IsPrefixOf(FailurePrefix, r.text)
                /\ ~r.isError => pipeline.finished = PipelineSteps)
    /\ [][pipeline.error # <<>> =>
             /\ pipeline'.started = pipeline.started
             /\ pipeline'.finished = pipeline.finished
             /\ pipeline'.response
                  = <<[thrown |-> FALSE, isError |-> TRUE,
                       text |-> FailurePrefix
                                  \o (IF pipeline.error[1].instanceOfError
                                      THEN pipeline.error[1].message
                                      ELSE "Unknown error occurred")]>>]_vars

\* generateModel failed after gatherDom resolved: the error response is
\* returned and renderToFile was never started
C25_Witness ==
    /\ pipeline.started = <<"gatherDom", "generateModel">>
    /\ pipeline.finished = <<"gatherDom">>
    /\ \E r \in Range(pipeline.response) :
          r.isError /\ r.text = FailurePrefix \o "No JSON found in response"

InsideGatherDom == {"launch", "newPage", "goto", "evaluate", "gatherFinally"}

InsideGenerateTry == {"cli", "extractJson", "parseWireframeModel", "generateFinally"}

\* C26: a browser that gatherDom launched is closed by the time gatherDom
\* settles, whether it resolved or threw; the prompt file that generateModel
\* wrote has had its deletion attempted by the time generateModel settles,
\* in every outcome, and a deletion that fails leaves the outcome as it was.
C26_ResourceRelease ==
    /\ [](/\ pipeline.browser = "open" => pipeline.pc \in InsideGatherDom
          /\ pipeline.pc \in InsideGatherDom \ {"launch"}
                => pipeline.browser = (IF pipeline.error = <<>> THEN "open"
                                       ELSE pipeline.browser)
          /\ pipeline.tempFile = "written" => pipeline.pc \in InsideGenerateTry
          /\ pipeline.pc \in InsideGenerateTry => pipeline.tempFile = "written")
    /\ [][pipeline.pc = "generateFinally" =>
             /\ pipeline'.tempFile \in {"deleted", "left"}
             /\ IF pipeline.error = <<>>
                THEN pipeline'.pc = "render" /\ pipeline'.response = <<>>
                ELSE \E r \in Range(pipeline'.response) :
                        r.text = FailurePrefix \o pipeline.error[1].message]_vars

\* the browser was closed after the extraction, the model was invalid and the
\* prompt file could not be deleted: the response carries the parse error
C26_Witness ==
    /\ pipeline.browser = "closed"
    /\ pipeline.tempFile = "left"
    /\ \E r \in Range(pipeline.response) :
          r.text = FailurePrefix \o "Invalid WireframeModel: missing nodes array"

-----------------------------------------------------------------------------
(* The dev server                                                            *)

\* the "error" event of this step carried EADDRINUSE at the first attempt
FirstPortConflict ==
    /\ devServer.pc = "listen"
    /\ devServer.retryCount = 0
    /\ devServer'.code = "EADDRINUSE"
    /\ devServer'.pc \in {"timer", "exited"}

\* what holds of every state and of every "error" event, whatever the retry
\* condition is
RetryFrame ==
    /\ [](/\ devServer.starts <= 2
          /\ devServer.exit \in {<<>>, <<1>>}
          /\ devServer.exit = <<1>> <=> devServer.pc = "exited"
          /\ devServer.pc \in {"listen", "listening"}
                => devServer.retryCount = devServer.starts - 1
          /\ devServer.starts = 2 => devServer.pids # {})
    /\ [][/\ devServer'.starts > devServer.starts /\ devServer.starts > 0
                => devServer.pc = "timer" /\ devServer'.starts = devServer.starts + 1
          /\ devServer'.code # devServer.code /\ ~FirstPortConflict
                => devServer'.exit = <<1>>]_vars

\* C27 as stated: on EADDRINUSE at the first attempt startServer retries once
\* only if a process was found, and exits with code 1 if nothing was killed;
\* a second EADDRINUSE or any other error exits with code 1; the server is
\* started at most twice.
C27_RetryAsStated ==
    /\ RetryFrame
    /\ [][FirstPortConflict =>
             /\ devServer'.pc = "timer" => devServer'.pids # {}
             /\ devServer'.killed = {} => devServer'.exit = <<1>>]_vars

\* C27: on EADDRINUSE at the first attempt startServer retries once, after
\* the timer, exactly when lsof listed a process, whether or not that process
\* could be killed, and exits with code 1 when it listed none; a second
\* EADDRINUSE or any other error exits with code 1; the server is started at
\* most twice.
C27_PortConflictRetry ==
    /\ RetryFrame
    /\ [][FirstPortConflict =>
             IF devServer'.pids # {} THEN devServer'.pc = "timer"
             ELSE devServer'.exit = <<1>>]_vars

\* lsof listed a process that kill could not end; the server was started a
\* second time and the port was still taken
C27_Witness ==
    /\ devServer.starts = 2
    /\ devServer.pids # {}
    /\ devServer.killed = {}
    /\ devServer.code = "EADDRINUSE"
    /\ devServer.exit = <<1>>

-----------------------------------------------------------------------------
(* Ids and depths of a returned model                                        *)

\* the number n of an id "wf-node-n"
IdNumber(node) ==
    CHOOSE k \in 0..(MaxRuns * (MaxElems + 1) + 1) : node.id = "wf-node-" \o ToString(k)

\* in every list of siblings below nodes, and in nodes itself, each node's id
\* number exceeds those of its descendants and of the subtrees before it
RECURSIVE IdsPostOrder(_)
IdsPostOrder(nodes) ==
    \A k \in DOMAIN nodes :
        /\ \A m \in Range(flattenNodes(nodes[k].children)) \cup
                    Range(flattenNodes(SubSeq(nodes, 1, k - 1))) :
              IdNumber(nodes[k]) > IdNumber(m)
        /\ IdsPostOrder(nodes[k].children)

\* C28: in a returned model every node's id number is greater than those of
\* its descendants and of the nodes in the subtrees of its preceding
\* siblings, and every id number lies in 1..K, K being the number of ids
\* generated during the call (nodeIdCounter at its end); the witness shows a
\* model whose id numbers are not contiguous.
C28_PostOrderIds ==
    runs >= 1 =>
        /\ IdsPostOrder(model)
        /\ \A m \in Range(AllNodes) : IdNumber(m) \in 1..nodeIdCounter
        /\ nodeIdCounter >= Len(AllNodes)

\* an insignificant div with two landmarks, then a landmark: the two nodes
\* built under the div took the ids 1 and 2 and were dropped, the model
\* holds wf-node-3 alone
C28_Witness ==
    /\ Analysed
    /\ Len(AllNodes) = 1
    /\ model[1].id = "wf-node-3"
    /\ nodeIdCounter = 3
    /\ dom.parent = <<0, 1, 1, 0>>
    /\ ~isSignificant(dom.el[1], ViewportWidth * ViewportHeight, mergeConfig(config))

\* the node was built as a grid item: its element is among the grid items
\* detected for its parent element, which is significant
BuiltAsGridItem(d, nd, cfg) ==
    /\ d.parent[nd.src] # 0
    /\ isSignificant(d.el[d.parent[nd.src]], d.window.innerWidth * d.window.innerHeight, cfg)
    /\ nd.src \in Range(detectGridItems(d, d.parent[nd.src]))

\* C29: every node of a returned model has a depth from 0 to maxDepth + 1;
\* a node deeper than maxDepth was built as a grid item, has no children and
\* has the semantic type "card".
C29_DepthCeiling ==
    Analysed =>
        \A nd \in Range(AllNodes) :
            /\ nd.depth \in 0..(mergeConfig(config).maxDepth + 1)
            /\ nd.depth > mergeConfig(config).maxDepth
                  => /\ BuiltAsGridItem(dom, nd, mergeConfig(config))
                     /\ nd.children = <<>>
                     /\ nd.semanticType = "card"

\* under maxDepth 0 a card at depth 1 whose element has a landmark child, and
\* every other node at depth 0
C29_Witness ==
    /\ Analysed
    /\ config = [maxDepth |-> 0]
    /\ \E nd \in Range(AllNodes) :
          /\ nd.depth = 1
          /\ nd.semanticType = "card"
          /\ \E j \in 1..dom.n : dom.parent[j] = nd.src /\ isLandmark(dom.el[j])
    /\ \E nd \in Range(AllNodes) : nd.depth = 0

-----------------------------------------------------------------------------
(* The overlay                                                               *)

\* C30: after any sequence of createOverlay, removeOverlay, toggleOverlay,
\* Close clicks and Escape presses (and label edits in between) at most one
\* overlay element is in the document, and one is there exactly when
\* state.model and state.canvas are non-null; while none is there,
\* state.labelOverrides and state.badges are empty and canvasScale is 1, so
\* a new overlay starts without overrides; a step that removes the overlay
\* leaves state.showLabels as it was.
C30_OverlayConsistency ==
    /\ [](/\ page.overlays <= 1
          /\ page.overlays = 1 <=> state.model # <<>> /\ state.canvas # <<>>
          /\ state.model # <<>> <=> state.canvas # <<>>
          /\ page.overlays = 0 =>
                /\ DOMAIN state.labelOverrides = {}
                /\ state.badges = <<>>
                /\ state.canvasScale[1] = state.canvasScale[2])
    /\ [][/\ page'.overlays < page.overlays => state'.showLabels = state.showLabels
          /\ page'.created > page.created =>
                /\ DOMAIN state'.labelOverrides = {}
                /\ state'.showLabels = state.showLabels]_vars

\* a label of wf-node-1 was overridden, the overlay was closed, and the
\* overlay opened next shows wf-node-1 under its own label again
C30_Witness ==
    /\ page.created >= 2
    /\ page.overlays = 1
    /\ state.showLabels
    /\ DOMAIN state.labelOverrides = {}
    /\ page.escapeHandlers >= 2
    /\ \E k \in DOMAIN state.badges :
          state.badges[k].nodeId = "wf-node-1" /\ state.badges[k].label = "Header"

=============================================================================
